---------------------------- MODULE Spec2Model ----------------------------
(***************************************************************************)
(* A model of mcp-nevent: the MCP server (index.ts, found at the end of    *)
(* src/src/tools/users.ts), the tool functions (users.ts, campaigns.ts,    *)
(* lineup.ts) and the HTTP client NeventClient (src/unnamed/part_000).     *)
(*                                                                         *)
(* JavaScript values are tagged records.  A JavaScript string is a         *)
(* sequence of tokens: a token is either one of the characters of          *)
(* SpecialChars, which the URL and JSON conversions treat one by one, or a *)
(* run of characters those conversions copy unchanged.  Flat gives the     *)
(* text a token sequence stands for.                                       *)
(***************************************************************************)
EXTENDS Integers, Sequences, FiniteSets, TLC

(***************************************************************************)
(* Bounds of the model.                                                    *)
(***************************************************************************)
\* Replies delivered to the driver in one run.
MaxCalls == 2

(***************************************************************************)
(* JavaScript values.                                                      *)
(***************************************************************************)
Undefined == [t |-> "undefined"]
Null == [t |-> "null"]
Bool(b) == [t |-> "bool", b |-> b]
Num(n) == [t |-> "num", n |-> n]
Str(s) == [t |-> "str", s |-> s]
\* An object is the sequence of its own enumerable entries <<key, value>>,
\* in insertion order (the order of Object.entries and of JSON.stringify).
Obj(e) == [t |-> "obj", e |-> e]
Arr(a) == [t |-> "arr", a |-> a]

\* A string of one token.
Text(x) == Str(<<x>>)

\* A string holding U+D800 alone: well-formed JSON ("\ud800") decodes to it.
LoneSurrogate == "<U+D800>"

RECURSIVE Flat(_)
Flat(s) == IF s = <<>> THEN "" ELSE Head(s) \o Flat(Tail(s))

RECURSIVE Join(_, _)
\* The concatenation of the sequences of ss, sep between them.
Join(ss, sep) ==
  IF ss = <<>> THEN <<>>
  ELSE IF Len(ss) = 1 THEN ss[1]
  ELSE ss[1] \o sep \o Join(Tail(ss), sep)

\* obj.key, and obj[key]: the value of an own property, undefined without it.
Prop(o, key) ==
  IF o.t = "obj" /\ \E i \in 1..Len(o.e) : o.e[i][1] = key
  THEN o.e[CHOOSE i \in 1..Len(o.e) : o.e[i][1] = key][2]
  ELSE Undefined

\* key in obj
HasKey(o, key) == o.t = "obj" /\ \E i \in 1..Len(o.e) : o.e[i][1] = key

RECURSIVE OmitEntries(_, _)
OmitEntries(e, key) ==
  IF e = <<>> THEN <<>>
  ELSE IF e[1][1] = key THEN OmitEntries(Tail(e), key)
  ELSE <<e[1]>> \o OmitEntries(Tail(e), key)

\* Rest that leaves the key in.
RestKeep(o, key) == o

\* const { key: _, ...rest } = obj
Rest(o, key) == Obj(OmitEntries(o.e, key))

\* { ...obj, key: v } and, for an object without key, { key: v, ...obj }'s entries
\* in the other order: an existing key keeps its place and takes the new value.
Spread(o, key, v) ==
  IF HasKey(o, key)
  THEN Obj([i \in 1..Len(o.e) |-> IF o.e[i][1] = key THEN <<key, v>> ELSE o.e[i]])
  ELSE Obj(Append(o.e, <<key, v>>))

\* a ?? b
Coalesce(a, b) == IF a.t \in {"undefined", "null"} THEN b ELSE a

\* A default parameter value: f(x = d) takes d for undefined only.
Default(a, d) == IF a.t = "undefined" THEN d ELSE a

\* ToBoolean: what `v && ...` tests.
Truthy(v) ==
  CASE v.t \in {"undefined", "null"} -> FALSE
    [] v.t = "bool" -> v.b
    [] v.t = "num" -> v.n # 0
    [] v.t = "str" -> Flat(v.s) # ""
    [] OTHER -> TRUE

RECURSIVE StringOf(_)
\* String(v), which is also what a template literal `${v}` inserts.
StringOf(v) ==
  CASE v.t = "undefined" -> <<"undefined">>
    [] v.t = "null" -> <<"null">>
    [] v.t = "bool" -> IF v.b THEN <<"true">> ELSE <<"false">>
    [] v.t = "num" -> <<ToString(v.n)>>
    [] v.t = "str" -> v.s
    [] v.t = "obj" -> <<"[object Object]">>
    [] v.t = "arr" ->
         Join([i \in 1..Len(v.a) |->
                 IF v.a[i].t \in {"undefined", "null"} THEN <<>>
                 ELSE StringOf(v.a[i])], <<",">>)

(***************************************************************************)
(* Text conversions of the JavaScript runtime the code calls.              *)
(***************************************************************************)
\* The characters the conversions below treat one by one.
SpecialChars == {"/", "?", "#", "&", "=", " ", "%", "+", ",", "@", "\"", LoneSurrogate}

\* The percent-encoding of a character's UTF-8 bytes (U+FFFD stands in for a
\* lone surrogate wherever a conversion takes a USVString).
PercentEncoded(c) ==
  CASE c = "/" -> "%2F"
    [] c = "?" -> "%3F"
    [] c = "#" -> "%23"
    [] c = "&" -> "%26"
    [] c = "=" -> "%3D"
    [] c = " " -> "%20"
    [] c = "%" -> "%25"
    [] c = "+" -> "%2B"
    [] c = "," -> "%2C"
    [] c = "@" -> "%40"
    [] c = "\"" -> "%22"
    [] c = LoneSurrogate -> "%EF%BF%BD"
    [] OTHER -> c

\* encodeURIComponent(s): every special character is escaped; a lone
\* surrogate makes it throw URIError.
encodeURIComponent(s) ==
  IF \E i \in 1..Len(s) : s[i] = LoneSurrogate
  THEN [ok |-> FALSE, s |-> <<>>]
  ELSE [ok |-> TRUE, s |-> [i \in 1..Len(s) |-> PercentEncoded(s[i])]]

\* The application/x-www-form-urlencoded byte serializer of URLSearchParams.
FormEscape(c) == IF c = " " THEN "+" ELSE PercentEncoded(c)

FormEncode(s) == [i \in 1..Len(s) |-> FormEscape(s[i])]

\* The application/x-www-form-urlencoded decoding of one token: "+" is a
\* space and a percent-encoded byte sequence is its character.
FormUnescape(x) ==
  IF x = "+" THEN " "
  ELSE IF \E c \in SpecialChars \ {LoneSurrogate} : PercentEncoded(c) = x
  THEN CHOOSE c \in SpecialChars \ {LoneSurrogate} : PercentEncoded(c) = x
  ELSE IF x = "%EF%BF%BD" THEN "<U+FFFD>" ELSE x

FormDecode(s) == [i \in 1..Len(s) |-> FormUnescape(s[i])]

\* The index of the first token of s equal to c, 0 when there is none.
IndexOf(s, c) ==
  IF \E i \in 1..Len(s) : s[i] = c
  THEN CHOOSE i \in 1..Len(s) : s[i] = c /\ \A j \in 1..(i - 1) : s[j] # c
  ELSE 0

RECURSIVE SplitOn(_, _)
\* s.split(c)
SplitOn(s, c) ==
  IF IndexOf(s, c) = 0 THEN <<s>>
  ELSE <<SubSeq(s, 1, IndexOf(s, c) - 1)>>
         \o SplitOn(SubSeq(s, IndexOf(s, c) + 1, Len(s)), c)

\* The urlencoded parser: the <<name, value>> pairs of a query string.
ParseQuery(q) ==
  LET parts == SelectSeq(SplitOn(q, "&"), LAMBDA p : p # <<>>)
      pair(p) == IF IndexOf(p, "=") = 0
                 THEN <<FormDecode(p), <<>> >>
                 ELSE <<FormDecode(SubSeq(p, 1, IndexOf(p, "=") - 1)),
                        FormDecode(SubSeq(p, IndexOf(p, "=") + 1, Len(p)))>>
  IN [i \in 1..Len(parts) |-> pair(parts[i])]

\* The urlencoded serializer: name=value pairs joined by "&".
SerializeQuery(pairs) ==
  Join([i \in 1..Len(pairs) |->
          FormEncode(pairs[i][1]) \o <<"=">> \o FormEncode(pairs[i][2])], <<"&">>)

\* The percent-encoding the URL parser applies to a path, a query or a
\* fragment it is given: of the characters modelled, the space, the double
\* quote and the lone surrogate.
UrlEscape(c) == IF c \in {" ", "\"", LoneSurrogate} THEN PercentEncoded(c) ELSE c

UrlEncode(s) == [i \in 1..Len(s) |-> UrlEscape(s[i])]

Schemes == {"https://", "http://"}

\* new URL(s) for an absolute URL string s: s[1] is the scheme and s[2] the
\* host; a string without a scheme is not a URL and the constructor throws
\* TypeError.  The rest is cut at the first "#" (the fragment) and then at the
\* first "?" (the query).
NewURL(s) ==
  IF Len(s) < 2 \/ s[1] \notin Schemes \/ s[2] \in SpecialChars
  THEN [ok |-> FALSE]
  ELSE LET rest == SubSeq(s, 3, Len(s))
           h == IndexOf(rest, "#")
           pre == IF h = 0 THEN rest ELSE SubSeq(rest, 1, h - 1)
           q == IndexOf(pre, "?")
           path == IF q = 0 THEN pre ELSE SubSeq(pre, 1, q - 1)
       IN [ok |-> TRUE,
           scheme |-> s[1],
           host |-> s[2],
           path |-> IF path = <<>> THEN <<"/">> ELSE UrlEncode(path),
           hasQuery |-> q # 0,
           query |-> IF q = 0 THEN <<>> ELSE UrlEncode(SubSeq(pre, q + 1, Len(pre))),
           hasFragment |-> h # 0,
           fragment |-> IF h = 0 THEN <<>> ELSE UrlEncode(SubSeq(rest, h + 1, Len(rest)))]

\* url.searchParams.append(name, value): the pairs of the URL's query with
\* the new pair added, serialized back into the URL.
SearchParamsAppend(u, name, value) ==
  [u EXCEPT !.hasQuery = TRUE,
            !.query = SerializeQuery(Append(ParseQuery(u.query), <<name, value>>))]

\* url.toString()
Href(u) ==
  <<u.scheme, u.host>> \o u.path
    \o (IF u.hasQuery THEN <<"?">> \o u.query ELSE <<>>)
    \o (IF u.hasFragment THEN <<"#">> \o u.fragment ELSE <<>>)

(***************************************************************************)
(* JSON.stringify and JSON.parse.                                          *)
(***************************************************************************)
JsonEscape(c) ==
  CASE c = "\"" -> "\\\""
    [] c = LoneSurrogate -> "\\ud800"
    [] OTHER -> c

\* The JSON text of a string: quoted, its quotes escaped.
Quote(s) == "\"" \o Flat([i \in 1..Len(s) |-> JsonEscape(s[i])]) \o "\""

RECURSIVE Spaces(_)
Spaces(n) == IF n = 0 THEN "" ELSE " " \o Spaces(n - 1)

RECURSIVE JoinText(_, _)
JoinText(ts, sep) ==
  IF ts = <<>> THEN ""
  ELSE IF Len(ts) = 1 THEN ts[1]
  ELSE ts[1] \o sep \o JoinText(Tail(ts), sep)

RECURSIVE JSONText(_, _, _)
\* The text JSON.stringify(v, null, indent) yields for v other than
\* undefined, at nesting depth d: properties whose value is undefined are
\* left out, undefined array elements become null, and with indent > 0 every
\* member goes on a line of its own.
JSONText(v, indent, d) ==
  LET nl(k) == IF indent = 0 THEN "" ELSE "\n" \o Spaces(indent * k)
      colon == IF indent = 0 THEN ":" ELSE ": "
  IN CASE v.t = "null" -> "null"
       [] v.t = "bool" -> IF v.b THEN "true" ELSE "false"
       [] v.t = "num" -> ToString(v.n)
       [] v.t = "str" -> Quote(v.s)
       [] v.t = "arr" ->
            IF v.a = <<>> THEN "[]"
            ELSE "[" \o nl(d + 1)
                   \o JoinText([i \in 1..Len(v.a) |->
                                  IF v.a[i].t = "undefined" THEN "null"
                                  ELSE JSONText(v.a[i], indent, d + 1)],
                               "," \o nl(d + 1))
                   \o nl(d) \o "]"
       [] v.t = "obj" ->
            LET kept == SelectSeq(v.e, LAMBDA p : p[2].t # "undefined")
            IN IF kept = <<>> THEN "{}"
               ELSE "{" \o nl(d + 1)
                      \o JoinText([i \in 1..Len(kept) |->
                                     Quote(<<kept[i][1]>>) \o colon
                                       \o JSONText(kept[i][2], indent, d + 1)],
                                  "," \o nl(d + 1))
                      \o nl(d) \o "}"

\* JSON.stringify(v, null, indent): undefined for undefined, else a string.
JSONStringify(v, indent) ==
  IF v.t = "undefined" THEN Undefined ELSE Text(JSONText(v, indent, 0))

\* JSON.parse of the response bodies the model's server sends: the value, or
\* ok FALSE where JSON.parse throws SyntaxError (the empty body).
ParseJSON(raw) ==
  CASE raw = "{\"message\":\"User not found\"}" ->
         [ok |-> TRUE, v |-> Obj(<< <<"message", Text("User not found")>> >>)]
    [] raw = "{\"message\":42}" ->
         [ok |-> TRUE, v |-> Obj(<< <<"message", Num(42)>> >>)]
    [] raw = "{\"id\":\"u1\"}" ->
         [ok |-> TRUE, v |-> Obj(<< <<"id", Text("u1")>> >>)]
    [] raw = "{\"subject\":\"Hi\",\"content\":\"Hello\"}" ->
         [ok |-> TRUE, v |-> Obj(<< <<"subject", Text("Hi")>>,
                                    <<"content", Text("Hello")>> >>)]
    [] raw = "[]" -> [ok |-> TRUE, v |-> Arr(<<>>)]
    [] raw = "null" -> [ok |-> TRUE, v |-> Null]
    [] raw = "{\"message\":\"\"}" ->
         [ok |-> TRUE, v |-> Obj(<< <<"message", Str(<<>>)>> >>)]
    [] OTHER -> [ok |-> FALSE, v |-> Undefined]

(***************************************************************************)
(* Errors.                                                                 *)
(***************************************************************************)
\* new Error(message): the message is the string form of what is given.
Error(message) == [name |-> "Error", message |-> message]
TypeError(message) == [name |-> "TypeError", message |-> message]
URIError(message) == [name |-> "URIError", message |-> message]
SyntaxError(message) == [name |-> "SyntaxError", message |-> message]

\* ErrorCode.MethodNotFound of the MCP SDK.
MethodNotFound == -32601

\* new McpError(code, message) of the MCP SDK, which prefixes the message.
McpError(code, message) ==
  [name |-> "McpError", code |-> code,
   message |-> "MCP error " \o ToString(code) \o ": " \o message]

\* error instanceof Error
InstanceOfError(x) == "name" \in DOMAIN x

Throw(error) == [kind |-> "throw", error |-> error]

(***************************************************************************)
(* NeventClient.                                                           *)
(***************************************************************************)
\* baseUrl.replace(/\/$/, '')
StripTrailingSlash(s) ==
  IF s # <<>> /\ s[Len(s)] = "/" THEN SubSeq(s, 1, Len(s) - 1) ELSE s

\* new NeventClient(config): the constructor keeps baseUrl and jwtToken and
\* nothing else of the config it is given.
NeventClient(config) ==
  [baseUrl |-> StripTrailingSlash(config.baseUrl.s), jwtToken |-> config.jwtToken.s]

RECURSIVE AppendParamsAll(_, _)
\* AppendParams without the test for undefined.
AppendParamsAll(u, e) ==
  IF e = <<>> THEN u
  ELSE AppendParamsAll(SearchParamsAppend(u, <<e[1][1]>>, StringOf(e[1][2])), Tail(e))

RECURSIVE AppendParams(_, _)
\* Object.entries(params).forEach: each entry whose value is not undefined
\* is appended to the URL's query as String(value).
AppendParams(u, e) ==
  IF e = <<>> THEN u
  ELSE IF e[1][2].t # "undefined"
  THEN AppendParams(SearchParamsAppend(u, <<e[1][1]>>, StringOf(e[1][2])), Tail(e))
  ELSE AppendParams(u, Tail(e))

\* RequestHeaders without the Authorization header.
RequestHeadersNoAuth(c) == << <<"Content-Type", "application/json">> >>

\* The headers of every request.
RequestHeaders(c) ==
  << <<"Authorization", "Bearer " \o Flat(c.jwtToken)>>,
     <<"Content-Type", "application/json">> >>

\* fetchOptions.body: the JSON text of a body given with a method other than
\* GET, undefined (no payload) otherwise.
RequestBody(method, body) ==
  IF Truthy(body) /\ method # "GET" THEN JSONStringify(body, 0) ELSE Undefined

\* NeventClient.request up to its call of fetch: the request handed to
\* fetch, or the error thrown before (new URL on a string that is no URL).
request(c, method, path, options) ==
  LET url == NewURL(c.baseUrl \o path)
  IN IF ~url.ok THEN Throw(TypeError("Invalid URL"))
     ELSE [kind |-> "fetch",
           req |-> [method |-> method,
                    url |-> Href(IF Truthy(options.params) /\ options.params.t = "obj"
                                 THEN AppendParams(url, options.params.e)
                                 ELSE url),
                    headers |-> RequestHeaders(c),
                    body |-> RequestBody(method, options.body)]]

\* response.ok
ResponseOk(status) == status \in 200..299

\* contentType?.includes('application/json'), contentType being null for
\* a response without the header.
IncludesJson(contentType) ==
  contentType.t = "str"
    /\ \E i \in 1..Len(contentType.s) : contentType.s[i] = "application/json"

\* response.text()
ResponseText(raw) == IF raw = "" THEN Str(<<>>) ELSE Text(raw)

\* The decoding of the body: response.json() or response.text(); ok FALSE
\* where response.json() rejects.
Decode(contentType, raw) ==
  IF IncludesJson(contentType) THEN ParseJSON(raw)
  ELSE [ok |-> TRUE, v |-> ResponseText(raw)]

\* ErrorMessage that never reads the body.
ErrorMessageStatusOnly(data, status, statusText) ==
  "HTTP " \o ToString(status) \o ": " \o statusText

\* The message of the error thrown for a response that is not ok.
ErrorMessage(data, status, statusText) ==
  IF data.t = "obj" /\ HasKey(data, "message")
  THEN Flat(StringOf(Prop(data, "message")))
  ELSE "HTTP " \o ToString(status) \o ": " \o statusText

\* NeventClient.request from the decoding of the body on: what it returns
\* or throws.
requestResult(resp, raw) ==
  LET d == Decode(resp.contentType, raw)
  IN IF ~d.ok
     THEN Throw(SyntaxError("Unexpected end of JSON input"))
     ELSE IF ~ResponseOk(resp.status)
     THEN Throw(Error(ErrorMessage(d.v, resp.status, resp.statusText)))
     ELSE [kind |-> "return",
           value |-> [data |-> d.v, status |-> resp.status, ok |-> ResponseOk(resp.status)]]

\* The convenience methods: the call of request each makes.
get(path, params) ==
  [kind |-> "call", method |-> "GET", path |-> path,
   options |-> [body |-> Undefined, params |-> params]]
post(path, body) ==
  [kind |-> "call", method |-> "POST", path |-> path,
   options |-> [body |-> body, params |-> Undefined]]
put(path, body) ==
  [kind |-> "call", method |-> "PUT", path |-> path,
   options |-> [body |-> body, params |-> Undefined]]
patch(path, body) ==
  [kind |-> "call", method |-> "PATCH", path |-> path,
   options |-> [body |-> body, params |-> Undefined]]
delete(path) ==
  [kind |-> "call", method |-> "DELETE", path |-> path,
   options |-> [body |-> Undefined, params |-> Undefined]]

(***************************************************************************)
(* The tool functions: the call of the client each makes.                  *)
(***************************************************************************)
\* An object literal { k1: v1, ... }.
Lit(e) == Obj(e)

\* PageParams with || in place of ??: a page or size of 0 takes the default.
PageParamsOr(params) ==
  << <<"page", IF Truthy(Prop(params, "page")) THEN Prop(params, "page") ELSE Num(0)>>,
     <<"size", IF Truthy(Prop(params, "size")) THEN Prop(params, "size") ELSE Num(20)>> >>

\* The { page: params.page ?? 0, size: params.size ?? 20 } every paginated
\* function starts its query with.
PageParams(params) ==
  << <<"page", Coalesce(Prop(params, "page"), Num(0))>>,
     <<"size", Coalesce(Prop(params, "size"), Num(20))>> >>

\* Pick that takes the first of the keys only.
PickFirst(params, ks) == << <<ks[1], Prop(params, ks[1])>> >>

\* { k: params.k, ... } for the keys ks.
Pick(params, ks) == [i \in 1..Len(ks) |-> <<ks[i], Prop(params, ks[i])>>]

\* ---- users.ts
\* listUsers that passes page and size on as they are.
listUsersNoDefaults(params) ==
  get(<<"/users">>,
      Lit(Pick(params, <<"page", "size", "sort", "email", "name", "phone",
                         "createdFrom", "createdTo", "eventId", "listId">>)))

listUsers(params) ==
  get(<<"/users">>,
      Lit(PageParams(params)
            \o Pick(params, <<"sort", "email", "name", "phone", "createdFrom",
                              "createdTo", "eventId", "listId">>)))
\* getUser that rejects a call without the identifier.
getUserChecked(userId) ==
  IF userId = Undefined THEN Throw(Error("userId is required"))
  ELSE get(<<"/users/">> \o StringOf(userId), Undefined)
getUser(userId) == get(<<"/users/">> \o StringOf(userId), Undefined)
getUserByEmail(email) ==
  IF encodeURIComponent(StringOf(email)).ok
  THEN get(<<"/users/email/">> \o encodeURIComponent(StringOf(email)).s, Undefined)
  ELSE Throw(URIError("URI malformed"))
createUser(userData) == post(<<"/users">>, userData)
updateUser(userId, userData) == put(<<"/users/">> \o StringOf(userId), userData)
deleteUser(userId) == delete(<<"/users/">> \o StringOf(userId))
getUserPurchases(userId, params) ==
  get(<<"/users/">> \o StringOf(userId) \o <<"/purchases">>, Lit(PageParams(params)))
getUserEvents(userId, params) ==
  get(<<"/users/">> \o StringOf(userId) \o <<"/events">>,
      Lit(PageParams(params) \o Pick(params, <<"type">>)))
getPropertyDefinitions(params) == get(<<"/properties">>, Lit(Pick(params, <<"type">>)))
createPropertyDefinition(property) == post(<<"/properties">>, property)
updatePropertyDefinition(propertyId, property) ==
  put(<<"/properties/">> \o StringOf(propertyId), property)
deletePropertyDefinition(propertyId) == delete(<<"/properties/">> \o StringOf(propertyId))
getUserCommunicationPreferences(userId) ==
  get(<<"/users/">> \o StringOf(userId) \o <<"/communication-preferences">>, Undefined)
updateUserCommunicationPreferences(userId, preferences) ==
  put(<<"/users/">> \o StringOf(userId) \o <<"/communication-preferences">>, preferences)
searchUsersBySegment(segmentId, params) ==
  get(<<"/segments/">> \o StringOf(segmentId) \o <<"/users">>,
      Lit(PageParams(Default(params, Obj(<<>>)))))
addUserToList(listId, userId) ==
  post(<<"/lists/">> \o StringOf(listId) \o <<"/users/">> \o StringOf(userId), Undefined)
removeUserFromList(listId, userId) ==
  delete(<<"/lists/">> \o StringOf(listId) \o <<"/users/">> \o StringOf(userId))
getUserCount == get(<<"/users/count">>, Undefined)
exportUsers(params) == post(<<"/users/export">>, params)

\* ---- campaigns.ts
listCampaigns(params) ==
  get(<<"/campaigns">>,
      Lit(PageParams(params) \o Pick(params, <<"sort", "type", "status">>)))
getCampaign(campaignId) == get(<<"/campaigns/">> \o StringOf(campaignId), Undefined)
createCampaign(campaign) == post(<<"/campaigns">>, campaign)
updateCampaign(campaignId, campaign) ==
  put(<<"/campaigns/">> \o StringOf(campaignId), campaign)
deleteCampaign(campaignId) == delete(<<"/campaigns/">> \o StringOf(campaignId))
sendCampaign(campaignId) ==
  post(<<"/campaigns/">> \o StringOf(campaignId) \o <<"/send">>, Undefined)
scheduleCampaign(campaignId, scheduledAt) ==
  post(<<"/campaigns/">> \o StringOf(campaignId) \o <<"/schedule">>,
       Lit(<< <<"scheduledAt", scheduledAt>> >>))
pauseCampaign(campaignId) ==
  post(<<"/campaigns/">> \o StringOf(campaignId) \o <<"/pause">>, Undefined)
resumeCampaign(campaignId) ==
  post(<<"/campaigns/">> \o StringOf(campaignId) \o <<"/resume">>, Undefined)
cancelCampaign(campaignId) ==
  post(<<"/campaigns/">> \o StringOf(campaignId) \o <<"/cancel">>, Undefined)
getCampaignMetrics(campaignId) ==
  get(<<"/campaigns/">> \o StringOf(campaignId) \o <<"/metrics">>, Undefined)
sendTestCampaign(campaignId, testEmails) ==
  post(<<"/campaigns/">> \o StringOf(campaignId) \o <<"/test">>,
       Lit(<< <<"emails", testEmails>> >>))
duplicateCampaign(campaignId) ==
  post(<<"/campaigns/">> \o StringOf(campaignId) \o <<"/duplicate">>, Undefined)
listSegments(params) ==
  get(<<"/segments">>, Lit(PageParams(params) \o Pick(params, <<"sort">>)))
getSegment(segmentId) == get(<<"/segments/">> \o StringOf(segmentId), Undefined)
createSegment(segment) == post(<<"/segments">>, segment)
updateSegment(segmentId, segment) ==
  put(<<"/segments/">> \o StringOf(segmentId), segment)
deleteSegment(segmentId) == delete(<<"/segments/">> \o StringOf(segmentId))
previewSegment(criteria) == post(<<"/segments/preview">>, criteria)
executeSegment(segmentId) ==
  post(<<"/segments/">> \o StringOf(segmentId) \o <<"/execute">>, Undefined)
listEmailTemplates(params) ==
  get(<<"/templates/email">>, Lit(PageParams(params) \o Pick(params, <<"sort">>)))
getEmailTemplate(templateId) ==
  get(<<"/templates/email/">> \o StringOf(templateId), Undefined)
createEmailTemplate(template) == post(<<"/templates/email">>, template)
updateEmailTemplate(templateId, template) ==
  put(<<"/templates/email/">> \o StringOf(templateId), template)
deleteEmailTemplate(templateId) ==
  delete(<<"/templates/email/">> \o StringOf(templateId))
renderEmailTemplate(templateId) ==
  get(<<"/templates/email/">> \o StringOf(templateId) \o <<"/render">>, Undefined)
\* generateEmailContent that posts the options alone.
generateEmailContentOptionsOnly(prompt, options) ==
  post(<<"/campaigns/generate">>, options)

generateEmailContent(prompt, options) ==
  post(<<"/campaigns/generate">>, Lit(<< <<"prompt", prompt>> >> \o options.e))

\* ---- lineup.ts
createPerformer(data) == post(<<"/admin/performers">>, data)
searchSpotify(query, limit) ==
  get(<<"/admin/performers/spotify/search">>,
      Lit(<< <<"query", query>>, <<"limit", Default(limit, Num(10))>> >>))
searchPerformers(query, limit) ==
  get(<<"/admin/performers/search">>,
      Lit(<< <<"query", query>>, <<"limit", Default(limit, Num(10))>> >>))
linkPerformerSpotify(performerId, data) ==
  post(<<"/admin/performers/">> \o StringOf(performerId) \o <<"/link-spotify">>, data)
unlinkPerformerFromMaster(performerId) ==
  post(<<"/admin/performers/">> \o StringOf(performerId) \o <<"/unlink-master">>, Undefined)
updatePerformer(performerId, data) ==
  patch(<<"/admin/performers/">> \o StringOf(performerId), data)
getPerformer(performerId, includeMaster) ==
  get(<<"/admin/performers/">> \o StringOf(performerId),
      Lit(<< <<"includeMaster", Default(includeMaster, Bool(FALSE))>> >>))
listPerformers(params) ==
  get(<<"/admin/performers">>, Lit(PageParams(params) \o Pick(params, <<"sort">>)))
deletePerformer(performerId) ==
  delete(<<"/admin/performers/">> \o StringOf(performerId))
createPerformerFromMaster(masterPerformerId) ==
  post(<<"/admin/performers/from-master-performer/">> \o StringOf(masterPerformerId),
       Undefined)
getPerformerLikes(performerId, params) ==
  get(<<"/admin/performers/">> \o StringOf(performerId) \o <<"/likes">>,
      Lit(PageParams(params)))
listEventSessions(eventId, params) ==
  get(<<"/admin/events/">> \o StringOf(eventId) \o <<"/sessions">>,
      Lit(Pick(params, <<"date", "stage", "isPublished">>)))
createSession(eventId, data) ==
  post(<<"/admin/events/">> \o StringOf(eventId) \o <<"/sessions">>,
       Spread(data, "eventId", eventId))
\* updateSession that puts the sessionId back into the body, as createSession
\* does with the eventId.
updateSessionWithId(sessionId, data) ==
  patch(<<"/admin/sessions/">> \o StringOf(sessionId),
        Spread(data, "sessionId", sessionId))

updateSession(sessionId, data) ==
  patch(<<"/admin/sessions/">> \o StringOf(sessionId), data)
getSession(sessionId) == get(<<"/admin/sessions/">> \o StringOf(sessionId), Undefined)
deleteSession(sessionId) == delete(<<"/admin/sessions/">> \o StringOf(sessionId))
addPerformerToSession(sessionId, data) ==
  post(<<"/admin/sessions/">> \o StringOf(sessionId) \o <<"/performers">>, data)
removePerformerFromSession(sessionId, performerId) ==
  delete(<<"/admin/sessions/">> \o StringOf(sessionId) \o <<"/performers/">>
           \o StringOf(performerId))
reorderSessionPerformers(sessionId, newOrders) ==
  put(<<"/admin/sessions/">> \o StringOf(sessionId) \o <<"/performers/reorder">>,
      newOrders)
publishSession(sessionId, isPublished) ==
  patch(<<"/admin/sessions/">> \o StringOf(sessionId) \o <<"/publish">>,
        Lit(<< <<"isPublished", isPublished>> >>))
getPublicLineup(eventId) ==
  get(<<"/public/events/">> \o StringOf(eventId) \o <<"/lineup">>, Undefined)
getAdminLineup(eventId) ==
  get(<<"/admin/events/">> \o StringOf(eventId) \o <<"/lineup">>, Undefined)
createOrUpdateDailyLineup(eventId, data) ==
  post(<<"/events/">> \o StringOf(eventId) \o <<"/daily-lineup">>, data)
getAllDailyLineups(eventId) ==
  get(<<"/events/">> \o StringOf(eventId) \o <<"/daily-lineup">>, Undefined)
getDailyLineupByDate(eventId, date) ==
  get(<<"/events/">> \o StringOf(eventId) \o <<"/daily-lineup/">> \o StringOf(date),
      Undefined)
updateDailyLineup(eventId, date, data) ==
  put(<<"/events/">> \o StringOf(eventId) \o <<"/daily-lineup/">> \o StringOf(date), data)
publishDailyLineup(eventId, date) ==
  put(<<"/events/">> \o StringOf(eventId) \o <<"/daily-lineup/">> \o StringOf(date)
        \o <<"/publish">>, Undefined)
unpublishDailyLineup(eventId, date) ==
  put(<<"/events/">> \o StringOf(eventId) \o <<"/daily-lineup/">> \o StringOf(date)
        \o <<"/unpublish">>, Undefined)
deleteDailyLineup(eventId, date) ==
  delete(<<"/events/">> \o StringOf(eventId) \o <<"/daily-lineup/">> \o StringOf(date))

(***************************************************************************)
(* index.ts: the call-tool handler.                                        *)
(***************************************************************************)
\* The names the switch of the handler has a case for.
ToolNames ==
  {"list_users", "get_user", "get_user_by_email", "create_user", "update_user",
   "delete_user", "get_user_purchases", "get_user_events",
   "get_property_definitions", "create_property_definition",
   "get_user_communication_preferences", "update_user_communication_preferences",
   "get_user_count", "export_users",
   "list_campaigns", "get_campaign", "create_campaign", "update_campaign",
   "delete_campaign", "send_campaign", "schedule_campaign", "pause_campaign",
   "cancel_campaign", "get_campaign_metrics", "send_test_campaign",
   "duplicate_campaign", "list_segments", "get_segment", "create_segment",
   "update_segment", "delete_segment", "preview_segment", "execute_segment",
   "list_email_templates", "get_email_template", "create_email_template",
   "update_email_template", "delete_email_template", "render_email_template",
   "generate_email_content",
   "create_performer", "search_spotify", "search_performers",
   "link_performer_spotify", "unlink_performer_from_master", "update_performer",
   "get_performer", "list_performers", "delete_performer",
   "create_performer_from_master", "get_performer_likes",
   "list_event_sessions", "create_session", "update_session", "get_session",
   "delete_session", "add_performer_to_session", "remove_performer_from_session",
   "reorder_session_performers", "publish_session",
   "get_public_lineup", "get_admin_lineup",
   "create_or_update_daily_lineup", "get_all_daily_lineups",
   "get_daily_lineup_by_date", "update_daily_lineup", "publish_daily_lineup",
   "unpublish_daily_lineup", "delete_daily_lineup"}

\* DefaultCase that asks the API about the name.
DefaultCaseLookup(name) == get(<<"/tools/", name>>, Undefined)

\* DefaultCase with a message that leaves the name out.
DefaultCaseNoName(name) == Throw(McpError(MethodNotFound, "Unknown tool"))

\* The default case of the switch.
DefaultCase(name) == Throw(McpError(MethodNotFound, "Unknown tool: " \o name))

\* The switch: the tool function a name selects, applied to what the case
\* takes out of toolArgs.
Dispatch(name, toolArgs) ==
  LET a(k) == Prop(toolArgs, k)
  IN CASE name = "list_users" -> listUsers(toolArgs)
       [] name = "get_user" -> getUser(a("userId"))
       [] name = "get_user_by_email" -> getUserByEmail(a("email"))
       [] name = "create_user" -> createUser(toolArgs)
       [] name = "update_user" -> updateUser(a("userId"), Rest(toolArgs, "userId"))
       [] name = "delete_user" -> deleteUser(a("userId"))
       [] name = "get_user_purchases" ->
            getUserPurchases(a("userId"), Lit(Pick(toolArgs, <<"page", "size">>)))
       [] name = "get_user_events" ->
            getUserEvents(a("userId"), Lit(Pick(toolArgs, <<"page", "size", "type">>)))
       [] name = "get_property_definitions" -> getPropertyDefinitions(toolArgs)
       [] name = "create_property_definition" -> createPropertyDefinition(toolArgs)
       [] name = "get_user_communication_preferences" ->
            getUserCommunicationPreferences(a("userId"))
       [] name = "update_user_communication_preferences" ->
            updateUserCommunicationPreferences(a("userId"), Rest(toolArgs, "userId"))
       [] name = "get_user_count" -> getUserCount
       [] name = "export_users" -> exportUsers(toolArgs)
       [] name = "list_campaigns" -> listCampaigns(toolArgs)
       [] name = "get_campaign" -> getCampaign(a("campaignId"))
       [] name = "create_campaign" -> createCampaign(toolArgs)
       [] name = "update_campaign" ->
            updateCampaign(a("campaignId"), Rest(toolArgs, "campaignId"))
       [] name = "delete_campaign" -> deleteCampaign(a("campaignId"))
       [] name = "send_campaign" -> sendCampaign(a("campaignId"))
       [] name = "schedule_campaign" ->
            scheduleCampaign(a("campaignId"), a("scheduledAt"))
       [] name = "pause_campaign" -> pauseCampaign(a("campaignId"))
       [] name = "cancel_campaign" -> cancelCampaign(a("campaignId"))
       [] name = "get_campaign_metrics" -> getCampaignMetrics(a("campaignId"))
       [] name = "send_test_campaign" ->
            sendTestCampaign(a("campaignId"), a("testEmails"))
       [] name = "duplicate_campaign" -> duplicateCampaign(a("campaignId"))
       [] name = "list_segments" -> listSegments(toolArgs)
       [] name = "get_segment" -> getSegment(a("segmentId"))
       [] name = "create_segment" -> createSegment(toolArgs)
       [] name = "update_segment" ->
            updateSegment(a("segmentId"), Rest(toolArgs, "segmentId"))
       [] name = "delete_segment" -> deleteSegment(a("segmentId"))
       [] name = "preview_segment" -> previewSegment(a("criteria"))
       [] name = "execute_segment" -> executeSegment(a("segmentId"))
       [] name = "list_email_templates" -> listEmailTemplates(toolArgs)
       [] name = "get_email_template" -> getEmailTemplate(a("templateId"))
       [] name = "create_email_template" -> createEmailTemplate(toolArgs)
       [] name = "update_email_template" ->
            updateEmailTemplate(a("templateId"), Rest(toolArgs, "templateId"))
       [] name = "delete_email_template" -> deleteEmailTemplate(a("templateId"))
       [] name = "render_email_template" -> renderEmailTemplate(a("templateId"))
       [] name = "generate_email_content" ->
            generateEmailContent(a("prompt"), Rest(toolArgs, "prompt"))
       [] name = "create_performer" -> createPerformer(toolArgs)
       [] name = "search_spotify" -> searchSpotify(a("query"), a("limit"))
       [] name = "search_performers" -> searchPerformers(a("query"), a("limit"))
       [] name = "link_performer_spotify" ->
            linkPerformerSpotify(a("performerId"),
                                 Lit(Pick(toolArgs, <<"spotifyId", "overrideData">>)))
       [] name = "unlink_performer_from_master" ->
            unlinkPerformerFromMaster(a("performerId"))
       [] name = "update_performer" ->
            updatePerformer(a("performerId"), Rest(toolArgs, "performerId"))
       [] name = "get_performer" -> getPerformer(a("performerId"), a("includeMaster"))
       [] name = "list_performers" ->
            listPerformers(Lit(Pick(toolArgs, <<"page", "size", "sort">>)))
       [] name = "delete_performer" -> deletePerformer(a("performerId"))
       [] name = "create_performer_from_master" ->
            createPerformerFromMaster(a("masterPerformerId"))
       [] name = "get_performer_likes" ->
            getPerformerLikes(a("performerId"), Lit(Pick(toolArgs, <<"page", "size">>)))
       [] name = "list_event_sessions" ->
            listEventSessions(a("eventId"),
                              Lit(Pick(toolArgs, <<"date", "stage", "isPublished">>)))
       [] name = "create_session" ->
            createSession(a("eventId"), Rest(toolArgs, "eventId"))
       [] name = "update_session" ->
            updateSession(a("sessionId"), Rest(toolArgs, "sessionId"))
       [] name = "get_session" -> getSession(a("sessionId"))
       [] name = "delete_session" -> deleteSession(a("sessionId"))
       [] name = "add_performer_to_session" ->
            addPerformerToSession(a("sessionId"),
                                  Lit(Pick(toolArgs, <<"performerId", "displayOrder",
                                                       "notes">>)))
       [] name = "remove_performer_from_session" ->
            removePerformerFromSession(a("sessionId"), a("performerId"))
       [] name = "reorder_session_performers" ->
            reorderSessionPerformers(a("sessionId"), a("newOrders"))
       [] name = "publish_session" -> publishSession(a("sessionId"), a("isPublished"))
       [] name = "get_public_lineup" -> getPublicLineup(a("eventId"))
       [] name = "get_admin_lineup" -> getAdminLineup(a("eventId"))
       [] name = "create_or_update_daily_lineup" ->
            createOrUpdateDailyLineup(a("eventId"),
                                      Lit(Pick(toolArgs, <<"date", "performerIds",
                                                           "displayOrder">>)))
       [] name = "get_all_daily_lineups" -> getAllDailyLineups(a("eventId"))
       [] name = "get_daily_lineup_by_date" ->
            getDailyLineupByDate(a("eventId"), a("date"))
       [] name = "update_daily_lineup" ->
            updateDailyLineup(a("eventId"), a("date"),
                              Lit(Pick(toolArgs, <<"date", "performerIds",
                                                   "displayOrder">>)))
       [] name = "publish_daily_lineup" -> publishDailyLineup(a("eventId"), a("date"))
       [] name = "unpublish_daily_lineup" ->
            unpublishDailyLineup(a("eventId"), a("date"))
       [] name = "delete_daily_lineup" -> deleteDailyLineup(a("eventId"), a("date"))
       [] OTHER -> DefaultCase(name)

\* The reply of the handler for a result: its JSON text, indented by 2.
SuccessReply(result) ==
  [content |-> << [type |-> "text", text |-> JSONStringify(result, 2)] >>]

\* The catch clause of the handler: the reply for what was thrown.
ErrorReply(error) ==
  [content |-> << [type |-> "text",
                   text |-> Text("Error: " \o (IF InstanceOfError(error) THEN error.message
                                               ELSE Flat(StringOf(error))))] >>,
   isError |-> TRUE]

\* HandlerResult with a catch clause that lets a SyntaxError through.
HandlerResultRethrow(outcome) ==
  IF outcome.kind = "throw" /\ outcome.error.name = "SyntaxError"
  THEN [kind |-> "throw", error |-> outcome.error]
  ELSE IF outcome.kind = "throw"
  THEN [kind |-> "reply", reply |-> ErrorReply(outcome.error)]
  ELSE [kind |-> "reply", reply |-> SuccessReply(outcome.value.data)]

\* The handler around its try block: what it hands back to the SDK for the
\* outcome of the block, a value returned or an error thrown inside it.
HandlerResult(outcome) ==
  IF outcome.kind = "throw"
  THEN [kind |-> "reply", reply |-> ErrorReply(outcome.error)]
  ELSE [kind |-> "reply", reply |-> SuccessReply(outcome.value.data)]

\* a || b
Or(a, b) == IF Truthy(a) THEN a ELSE b

\* The configuration index.ts reads from the environment.
NEVENT_API_URL(env) == Or(env.NEVENT_API_URL, Str(<<"https://", "api.nevent.io">>))
NEVENT_JWT_TOKEN(env) == Or(env.NEVENT_JWT_TOKEN, Str(<<>>))
NEVENT_TENANT_ID(env) == env.NEVENT_TENANT_ID

\* The config index.ts constructs the client with.
ClientConfig(env) ==
  [baseUrl |-> NEVENT_API_URL(env),
   jwtToken |-> NEVENT_JWT_TOKEN(env),
   tenantId |-> NEVENT_TENANT_ID(env)]

(***************************************************************************)
(* The inputs of the model.                                                *)
(***************************************************************************)
\* The environments the process is started in.
Envs ==
  {[NEVENT_API_URL |-> Undefined, NEVENT_JWT_TOKEN |-> Undefined,
    NEVENT_TENANT_ID |-> Undefined],
   [NEVENT_API_URL |-> Undefined, NEVENT_JWT_TOKEN |-> Str(<<>>),
    NEVENT_TENANT_ID |-> Text("tenant-1")],
   [NEVENT_API_URL |-> Undefined, NEVENT_JWT_TOKEN |-> Text("tokA"),
    NEVENT_TENANT_ID |-> Undefined],
   [NEVENT_API_URL |-> Str(<<"https://", "staging.nevent.io", "/v1", "/">>),
    NEVENT_JWT_TOKEN |-> Text("tokB"), NEVENT_TENANT_ID |-> Text("tenant-1")],
   [NEVENT_API_URL |-> Text("api.nevent.io"), NEVENT_JWT_TOKEN |-> Text("tokA"),
    NEVENT_TENANT_ID |-> Text("tenant-1")]}

\* Names a caller may send that the switch has no case for.
UnknownNames ==
  {"resume_campaign", "update_property_definition", "delete_property_definition",
   "search_users_by_segment", "add_user_to_list", "remove_user_from_list",
   "no_such_tool"}

\* The argument bags a caller sends; the handler takes any bag with any name.
ArgBags ==
  {Undefined, Obj(<<>>),
   Obj(<< <<"userId", Text("u1")>>, <<"name", Text("Ann")>> >>),
   Obj(<< <<"prompt", Str(<<"Summer", " ", "sale">>)>>, <<"tone", Text("exciting")>> >>),
   Obj(<< <<"email", Str(<<"ann", LoneSurrogate>>)>> >>),
   Obj(<< <<"userId", Text("u1")>>, <<"campaignId", Text("c1")>>,
          <<"segmentId", Text("s1")>>, <<"templateId", Text("t1")>>,
          <<"performerId", Text("p1")>>, <<"sessionId", Text("se1")>>,
          <<"eventId", Text("e1")>>, <<"date", Text("2025-07-01")>>,
          <<"masterPerformerId", Text("m1")>>,
          <<"email", Str(<<"ann", "@", "x.io">>)>>,
          <<"page", Num(2)>>, <<"size", Num(0)>>,
          <<"sort", Str(<<"createdAt", ",", "desc">>)>>,
          <<"query", Str(<<"rock", " ", "band">>)>>,
          <<"criteria", Obj(<< <<"field", Text("age")>> >>)>>,
          <<"testEmails", Arr(<<Text("qa"), Text("dev")>>)>>,
          <<"newOrders", Obj(<< <<"p1", Num(1)>> >>)>>,
          <<"prompt", Str(<<"Summer", " ", "sale">>)>>,
          <<"tone", Text("exciting")>> >>)}

\* The status lines and content-type headers of the responses.
StatusLines ==
  {[status |-> 200, statusText |-> "OK"],
   [status |-> 204, statusText |-> "No Content"],
   [status |-> 404, statusText |-> "Not Found"],
   [status |-> 500, statusText |-> "Internal Server Error"]}

ContentTypes ==
  {Null, Text("text/plain"), Str(<<"application/json", "; charset=utf-8">>)}

ResponseHeads ==
  {[status |-> l.status, statusText |-> l.statusText, contentType |-> ct] :
     l \in StatusLines, ct \in ContentTypes}

\* The bodies of the responses, as sent.
RawBodies ==
  {"", "{\"message\":\"User not found\"}", "{\"message\":\"\"}", "{\"message\":42}",
   "{\"id\":\"u1\"}", "{\"subject\":\"Hi\",\"content\":\"Hello\"}", "null"}

(***************************************************************************)
(* The state.                                                              *)
(***************************************************************************)
VARIABLES
  phase,   \* "start", "running" (the server is connected) or "exited"
  env,     \* the environment of the process
  client,  \* the NeventClient of index.ts, undefined before it is constructed
  inv,     \* the invocation in progress, one per slot
  log      \* for each reply delivered, whether it was an error reply

vars == <<phase, env, client, inv, log>>

Slots == {1}

(***************************************************************************)
(* The catalog of tools.                                                   *)
(***************************************************************************)
\* userToolDefinitions of users.ts: each definition by its name and the
\* arguments its inputSchema requires, in the order of the array.
userToolDefinitions ==
  << [name |-> "list_users", required |-> <<>>],
     [name |-> "get_user", required |-> <<"userId">>],
     [name |-> "get_user_by_email", required |-> <<"email">>],
     [name |-> "create_user", required |-> <<"email">>],
     [name |-> "update_user", required |-> <<"userId">>],
     [name |-> "delete_user", required |-> <<"userId">>],
     [name |-> "get_user_purchases", required |-> <<"userId">>],
     [name |-> "get_user_events", required |-> <<"userId">>],
     [name |-> "get_property_definitions", required |-> <<>>],
     [name |-> "create_property_definition", required |-> <<"name", "dataType">>],
     [name |-> "get_user_communication_preferences", required |-> <<"userId">>],
     [name |-> "update_user_communication_preferences", required |-> <<"userId">>],
     [name |-> "get_user_count", required |-> <<>>],
     [name |-> "export_users", required |-> <<>>] >>

\* campaignToolDefinitions of campaigns.ts: each definition by its name and the
\* arguments its inputSchema requires, in the order of the array.
campaignToolDefinitions ==
  << [name |-> "list_campaigns", required |-> <<>>],
     [name |-> "get_campaign", required |-> <<"campaignId">>],
     [name |-> "create_campaign", required |-> <<"name", "type">>],
     [name |-> "update_campaign", required |-> <<"campaignId">>],
     [name |-> "delete_campaign", required |-> <<"campaignId">>],
     [name |-> "send_campaign", required |-> <<"campaignId">>],
     [name |-> "schedule_campaign", required |-> <<"campaignId", "scheduledAt">>],
     [name |-> "pause_campaign", required |-> <<"campaignId">>],
     [name |-> "cancel_campaign", required |-> <<"campaignId">>],
     [name |-> "get_campaign_metrics", required |-> <<"campaignId">>],
     [name |-> "send_test_campaign", required |-> <<"campaignId", "testEmails">>],
     [name |-> "duplicate_campaign", required |-> <<"campaignId">>],
     [name |-> "list_segments", required |-> <<>>],
     [name |-> "get_segment", required |-> <<"segmentId">>],
     [name |-> "create_segment", required |-> <<"name", "criteria">>],
     [name |-> "update_segment", required |-> <<"segmentId">>],
     [name |-> "delete_segment", required |-> <<"segmentId">>],
     [name |-> "preview_segment", required |-> <<"criteria">>],
     [name |-> "execute_segment", required |-> <<"segmentId">>],
     [name |-> "list_email_templates", required |-> <<>>],
     [name |-> "get_email_template", required |-> <<"templateId">>],
     [name |-> "create_email_template", required |-> <<"name">>],
     [name |-> "update_email_template", required |-> <<"templateId">>],
     [name |-> "delete_email_template", required |-> <<"templateId">>],
     [name |-> "render_email_template", required |-> <<"templateId">>],
     [name |-> "generate_email_content", required |-> <<"prompt">>] >>

\* lineupToolDefinitions of lineup.ts: each definition by its name and the
\* arguments its inputSchema requires, in the order of the array.
lineupToolDefinitions ==
  << [name |-> "create_performer", required |-> <<"name">>],
     [name |-> "search_spotify", required |-> <<"query">>],
     [name |-> "search_performers", required |-> <<"query">>],
     [name |-> "link_performer_spotify", required |-> <<"performerId", "spotifyId">>],
     [name |-> "unlink_performer_from_master", required |-> <<"performerId">>],
     [name |-> "update_performer", required |-> <<"performerId">>],
     [name |-> "get_performer", required |-> <<"performerId">>],
     [name |-> "list_performers", required |-> <<>>],
     [name |-> "delete_performer", required |-> <<"performerId">>],
     [name |-> "create_performer_from_master", required |-> <<"masterPerformerId">>],
     [name |-> "get_performer_likes", required |-> <<"performerId">>],
     [name |-> "list_event_sessions", required |-> <<"eventId">>],
     [name |-> "create_session", required |-> <<"eventId", "name", "startDateTime", "endDateTime">>],
     [name |-> "update_session", required |-> <<"sessionId">>],
     [name |-> "get_session", required |-> <<"sessionId">>],
     [name |-> "delete_session", required |-> <<"sessionId">>],
     [name |-> "add_performer_to_session", required |-> <<"sessionId", "performerId">>],
     [name |-> "remove_performer_from_session", required |-> <<"sessionId", "performerId">>],
     [name |-> "reorder_session_performers", required |-> <<"sessionId", "newOrders">>],
     [name |-> "publish_session", required |-> <<"sessionId", "isPublished">>],
     [name |-> "get_public_lineup", required |-> <<"eventId">>],
     [name |-> "get_admin_lineup", required |-> <<"eventId">>],
     [name |-> "create_or_update_daily_lineup", required |-> <<"eventId", "date", "performerIds">>],
     [name |-> "get_all_daily_lineups", required |-> <<"eventId">>],
     [name |-> "get_daily_lineup_by_date", required |-> <<"eventId", "date">>],
     [name |-> "update_daily_lineup", required |-> <<"eventId", "date", "performerIds">>],
     [name |-> "publish_daily_lineup", required |-> <<"eventId", "date">>],
     [name |-> "unpublish_daily_lineup", required |-> <<"eventId", "date">>],
     [name |-> "delete_daily_lineup", required |-> <<"eventId", "date">>] >>

\* The catalog with a definition more, for a tool the switch has no case for.
allToolDefinitionsWithResume ==
  userToolDefinitions \o campaignToolDefinitions \o lineupToolDefinitions
    \o << [name |-> "resume_campaign", required |-> <<"campaignId">>] >>

\* The catalog with the lineup tools first.
allToolDefinitionsLineupFirst ==
  lineupToolDefinitions \o userToolDefinitions \o campaignToolDefinitions

\* const allToolDefinitions = [...userToolDefinitions,
\* ...campaignToolDefinitions, ...lineupToolDefinitions], computed once when
\* index.ts is loaded; no statement of the program writes to it afterwards.
allToolDefinitions ==
  userToolDefinitions \o campaignToolDefinitions \o lineupToolDefinitions

\* A slot no invocation occupies.
Idle ==
  [pc |-> "idle", via |-> "", name |-> "", args |-> Undefined, nreq |-> 0,
   req |-> Undefined, resp |-> Undefined, raw |-> Undefined, out |-> Undefined,
   result |-> Undefined]

\* The invocations started and not yet delivered.
Busy == {i \in Slots : inv[i].pc # "idle"}

Init ==
  /\ phase = "start"
  /\ env \in Envs
  /\ client = Undefined
  /\ inv = [i \in Slots |-> Idle]
  /\ log = <<>>

\* Startup without the check of the token.
StartupUnchecked ==
  /\ phase = "start"
  /\ phase' = "running"
  /\ client' = NeventClient(ClientConfig(env))
  /\ UNCHANGED <<env, inv, log>>

\* index.ts from its first line to server.connect: without a token the
\* process exits, with one the client is constructed and the server started.
Startup ==
  /\ phase = "start"
  /\ IF ~Truthy(NEVENT_JWT_TOKEN(env))
     THEN phase' = "exited" /\ client' = client
     ELSE phase' = "running" /\ client' = NeventClient(ClientConfig(env))
  /\ UNCHANGED <<env, inv, log>>

\* A slot whose code has run to its end with outcome o: of the try block of
\* the handler, which then replies, or of a call of request made directly.
Done(slot, o) ==
  IF slot.via = "tool"
  THEN [slot EXCEPT !.pc = "done", !.out = o, !.result = HandlerResult(o)]
  ELSE [slot EXCEPT !.pc = "done", !.out = o]

\* Fetching with a header that numbers the requests by the replies
\* delivered so far.
FetchingNumbered(slot, req) ==
  [slot EXCEPT !.pc = "fetch",
               !.req = [req EXCEPT !.headers
                                     = Append(@, <<"X-Request-Seq", ToString(Len(log))>>)],
               !.nreq = slot.nreq + 1]

\* await fetch(url.toString(), fetchOptions): the request goes out and the
\* invocation waits for the response.
Fetching(slot, req) ==
  [slot EXCEPT !.pc = "fetch", !.req = req, !.nreq = slot.nreq + 1]

\* What a call of request leaves of the slot: waiting for fetch, or done
\* with the error thrown before it.
Requested(slot, r) == IF r.kind = "fetch" THEN Fetching(slot, r.req) ELSE Done(slot, r)

\* The handler of a call-tool request, from its entry to the first await that
\* waits for the network: the switch, the tool function, the client's
\* request up to fetch.
CallTool(i, name, args) ==
  /\ phase = "running"
  /\ inv[i].pc = "idle"
  /\ Len(log) < MaxCalls
  /\ LET toolArgs == Or(args, Obj(<<>>))
         plan == Dispatch(name, toolArgs)
         r == IF plan.kind = "call"
              THEN request(client, plan.method, plan.path, plan.options)
              ELSE plan
         slot == [Idle EXCEPT !.via = "tool", !.name = name, !.args = args]
     IN inv' = [inv EXCEPT ![i] = Requested(slot, r)]
  /\ UNCHANGED <<phase, env, client, log>>

\* FetchResolve that waits for the whole response, an empty body included,
\* in one await.
FetchResolveWhole(i, head) ==
  /\ inv[i].pc = "fetch"
  /\ LET slot == [inv[i] EXCEPT !.resp = head, !.raw = ResponseText("")]
     IN inv' = [inv EXCEPT ![i] = Done(slot, requestResult(head, ""))]
  /\ UNCHANGED <<phase, env, client, log>>

\* fetch resolves: the status line and the headers of the response are in.
FetchResolve(i, head) ==
  /\ inv[i].pc = "fetch"
  /\ inv' = [inv EXCEPT ![i].pc = "body", ![i].resp = head]
  /\ UNCHANGED <<phase, env, client, log>>

\* Failed with one retry: the request is issued again after a first failure.
FailedRetry(slot, error) ==
  IF slot.pc = "fetch" /\ slot.nreq < 2 THEN Fetching(slot, slot.req)
  ELSE Done(slot, Throw(error))

\* Where a rejected await inside request leaves the invocation: the error
\* propagates, nothing is tried again.
Failed(slot, error) == Done(slot, Throw(error))

\* fetch rejects: a network fault.
FetchReject(i) ==
  /\ inv[i].pc = "fetch"
  /\ inv' = [inv EXCEPT ![i] = Failed(inv[i], TypeError("fetch failed"))]
  /\ UNCHANGED <<phase, env, client, log>>

\* BodyResolve with the response kept in one place for all invocations: the
\* status and the headers are those of the response that arrived last.
BodyResolveShared(i, raw) ==
  /\ inv[i].pc = "body"
  /\ LET last == CHOOSE j \in DOMAIN inv :
                   inv[j].pc = "body" /\ \A k \in DOMAIN inv : inv[k].pc = "body" => k <= j
         o == requestResult(inv[last].resp, raw)
         slot == [inv[i] EXCEPT !.raw = ResponseText(raw)]
     IN inv' = [inv EXCEPT ![i] = Done(slot, o)]
  /\ UNCHANGED <<phase, env, client, log>>

\* response.json() or response.text() settles with the body read: request
\* returns or throws, and the handler replies.
BodyResolve(i, raw) ==
  /\ inv[i].pc = "body"
  /\ LET o == requestResult(inv[i].resp, raw)
         slot == [inv[i] EXCEPT !.raw = ResponseText(raw)]
     IN inv' = [inv EXCEPT ![i] = Done(slot, o)]
  /\ UNCHANGED <<phase, env, client, log>>

\* The body cannot be read: the connection breaks after the headers.
BodyReject(i) ==
  /\ inv[i].pc = "body"
  /\ inv' = [inv EXCEPT ![i] = Failed(inv[i], TypeError("terminated"))]
  /\ UNCHANGED <<phase, env, client, log>>

\* reply.isError
IsErrorReply(r) == "isError" \in DOMAIN r /\ r.isError

\* What the log keeps of a finished invocation.
Logged(slot) ==
  IF slot.via = "tool" /\ slot.result.kind = "reply"
  THEN IF IsErrorReply(slot.result.reply) THEN "error" ELSE "ok"
  ELSE IF slot.out.kind = "throw" THEN "thrown" ELSE "returned"

\* The handler of ListToolsRequestSchema: it reads no state but the catalog
\* and returns { tools: allToolDefinitions } at once.
ListTools(i) ==
  /\ phase = "running"
  /\ inv[i].pc = "idle"
  /\ inv' = [inv EXCEPT ![i] = [Idle EXCEPT !.pc = "done", !.via = "list",
                                            !.result = [kind |-> "reply",
                                                        reply |-> [tools |-> allToolDefinitions]]]]
  /\ UNCHANGED <<phase, env, client, log>>

\* The SDK takes what the handler handed back; the slot is free again. The
\* log keeps the outcomes of the calls, not the list-tools requests.
Deliver(i) ==
  /\ inv[i].pc = "done"
  /\ log' = IF inv[i].via = "list" THEN log ELSE Append(log, Logged(inv[i]))
  /\ inv' = [inv EXCEPT ![i] = Idle]
  /\ UNCHANGED <<phase, env, client>>

Next ==
  \/ Startup
  \/ \E i \in Slots, name \in ToolNames \cup UnknownNames, args \in ArgBags :
       CallTool(i, name, args)
  \/ \E i \in Slots, head \in ResponseHeads : FetchResolve(i, head)
  \/ \E i \in Slots : FetchReject(i)
  \/ \E i \in Slots, raw \in RawBodies : BodyResolve(i, raw)
  \/ \E i \in Slots : BodyReject(i)
  \/ \E i \in Slots : ListTools(i)
  \/ \E i \in Slots : Deliver(i)

Spec == Init /\ [][Next]_vars

(***************************************************************************)
(* NeventClient.request called directly, with any method, path, params and *)
(* body, on a client already constructed.                                  *)
(***************************************************************************)
Methods == {"GET", "POST", "PUT", "PATCH", "DELETE"}

\* Server-relative paths, as the callers of request build them.
\* The last is what getUserEvents builds for the userId "u1?sort=x".
Paths ==
  {<<"/users">>, <<"/users/", "u1", "/events">>,
   <<"/users/", "u1", "?", "sort", "=", "x", "/events">>}

ParamMaps ==
  {Undefined,
   Obj(<<>>),
   Obj(<< <<"page", Num(0)>>, <<"size", Num(20)>>, <<"sort", Undefined>> >>),
   Obj(<< <<"email", Undefined>>, <<"name", Undefined>> >>),
   Obj(<< <<"query", Str(<<"rock", " ", "band">>)>>, <<"email", Undefined>>,
          <<"isPublished", Bool(FALSE)>>, <<"limit", Num(-1)>> >>),
   Obj(<< <<"sort", Str(<<"a", "&", "b", "=", "c", ",", "desc">>)>>,
          <<"name", Str(<<>>)>>, <<"phone", Undefined>>,
          <<"email", Str(<<"ann", "+", "1", "@", "x.io">>)>>,
          <<"type", Str(<<"50", "%", "/", "?", "#">>)>> >>)}

Bodies ==
  {Undefined, Null, Bool(FALSE), Bool(TRUE), Num(0), Num(7), Str(<<>>),
   Text("csv"),
   Obj(<<>>),
   Obj(<< <<"name", Text("Ann")>>, <<"phone", Undefined>>,
          <<"tags", Arr(<<Text("a"), Num(1)>>)>> >>)}

\* The heads of the responses to the direct calls: JSON by the content type
\* application/json, and by a media type with the suffix +json.
RequestHeads ==
  {h \in ResponseHeads : h.status \in {200, 404} /\ IncludesJson(h.contentType)}
    \cup {[status |-> 200, statusText |-> "OK",
           contentType |-> Str(<<"application/vnd.api", "+json">>)]}

InitRequest ==
  /\ phase = "running"
  /\ env \in {e \in Envs : Truthy(NEVENT_JWT_TOKEN(e))}
  /\ client = NeventClient(ClientConfig(env))
  /\ inv = [i \in Slots |-> Idle]
  /\ log = <<>>

\* A call of client.request(method, path, { body, params }).
RequestCall(i, method, path, options) ==
  /\ phase = "running"
  /\ inv[i].pc = "idle"
  /\ Len(log) < MaxCalls
  /\ LET slot == [Idle EXCEPT !.via = "request",
                               !.args = [method |-> method, path |-> path,
                                         options |-> options]]
     IN inv' = [inv EXCEPT ![i] = Requested(slot, request(client, method, path, options))]
  /\ UNCHANGED <<phase, env, client, log>>

NextRequest ==
  \/ \E i \in Slots, method \in Methods, path \in Paths,
         body \in Bodies, params \in ParamMaps :
       RequestCall(i, method, path, [body |-> body, params |-> params])
  \/ \E i \in Slots, head \in RequestHeads : FetchResolve(i, head)
  \/ \E i \in Slots : FetchReject(i)
  \/ \E i \in Slots, raw \in {"{\"id\":\"u1\"}"} : BodyResolve(i, raw)
  \/ \E i \in Slots : BodyReject(i)
  \/ \E i \in Slots : Deliver(i)

SpecRequest == InitRequest /\ [][NextRequest]_vars

(***************************************************************************)
(* Two call-tool invocations in flight at once: the SDK starts the handler *)
(* for each request as it arrives and does not wait for the one before.    *)
(***************************************************************************)
Invocations == {1, 2}

ConcurrentNames == {"get_user", "list_users", "delete_user", "no_such_tool"}

ConcurrentArgs ==
  {Undefined,
   Obj(<< <<"userId", Text("u1")>>, <<"name", Text("Ann")>> >>),
   Obj(<< <<"userId", Str(<<"u1", "/", "purchases", "?", "admin", "=", "1",
                            "#", "top">>)>> >>)}

ConcurrentHeads ==
  {h \in ResponseHeads : h.status \in {200, 404} /\ h.contentType # Null}

ConcurrentBodies == {"", "{\"message\":\"User not found\"}", "{\"id\":\"u1\"}"}

InitConcurrent ==
  /\ phase = "running"
  /\ env \in {e \in Envs : Truthy(NEVENT_JWT_TOKEN(e)) /\ e.NEVENT_API_URL = Undefined}
  /\ client = NeventClient(ClientConfig(env))
  /\ inv = [i \in Invocations |-> Idle]
  /\ log = <<>>

NextConcurrent ==
  \/ \E i \in Invocations, name \in ConcurrentNames, args \in ConcurrentArgs :
       CallTool(i, name, args)
  \/ \E i \in Invocations, head \in ConcurrentHeads : FetchResolve(i, head)
  \/ \E i \in Invocations : FetchReject(i)
  \/ \E i \in Invocations, raw \in ConcurrentBodies : BodyResolve(i, raw)
  \/ \E i \in Invocations : BodyReject(i)
  \/ \E i \in Invocations : Deliver(i)

SpecConcurrent == InitConcurrent /\ [][NextConcurrent]_vars

(***************************************************************************)
(* The claims.                                                             *)
(***************************************************************************)
\* The invocations of tools, and those that ran to their end.
ToolSlots == {i \in Slots : inv[i].via = "tool"}
DoneTools == {i \in ToolSlots : inv[i].pc = "done"}

\* The invocations whose response body was read.
BodyRead == {i \in Slots : inv[i].pc = "done" /\ inv[i].raw.t = "str"}

\* The text of a reply.
ReplyText(r) == Flat(r.content[1].text.s)

\* A reply of the shape { content: [{ type: 'text', text }] }.
TextReply(r) ==
  /\ Len(r.content) = 1
  /\ r.content[1].type = "text"
  /\ r.content[1].text.t = "str"

\* C1: every call-tool invocation, whatever the name, the arguments and the
\* outcome of the HTTP exchange, ends in a reply the handler returns; what
\* is thrown inside the handler is turned once into the reply
\* { content: [{ type: 'text', text: "Error: " + message }], isError: true },
\* nothing is thrown out of the handler, and the server keeps running.
C1_EveryFailureBecomesReply ==
  /\ \A i \in DoneTools :
       /\ inv[i].result.kind = "reply"
       /\ TextReply(inv[i].result.reply)
       /\ inv[i].out.kind = "throw" =>
            /\ IsErrorReply(inv[i].result.reply)
            /\ ReplyText(inv[i].result.reply) = "Error: " \o inv[i].out.error.message
       /\ inv[i].out.kind = "return" => ~IsErrorReply(inv[i].result.reply)
  /\ \A k \in 1..Len(log) : log[k] \in {"ok", "error"}
  /\ log # <<>> => phase = "running"

\* C1 witness: after an error reply was delivered, a later invocation whose
\* body could not be decoded has its error reply.
C1_Witness ==
  \E i \in DoneTools :
    /\ Len(log) >= 1 /\ log[1] = "error"
    /\ inv[i].out.kind = "throw" /\ inv[i].out.error.name = "SyntaxError"
    /\ IsErrorReply(inv[i].result.reply)

\* The base URL of the client is a URL: new URL(baseUrl + path) does not throw.
BaseUrlIsUrl == NewURL(client.baseUrl \o <<"/">>).ok

\* The email of the arguments is a string that encodeURIComponent rejects.
MalformedEmail(args) ==
  LET email == Prop(Or(args, Obj(<<>>)), "email")
  IN email.t = "str" /\ \E k \in 1..Len(email.s) : email.s[k] = LoneSurrogate

\* Building the request of the invocation throws before fetch is called.
ThrowsBeforeFetch(name, args) ==
  \/ ~BaseUrlIsUrl
  \/ name = "get_user_by_email" /\ MalformedEmail(args)

\* C2 as stated: every invocation of a registered tool has issued exactly one
\* HTTP request when it replies.
C2_ExactlyOneRequest ==
  \A i \in DoneTools : inv[i].name \in ToolNames => inv[i].nreq = 1

\* C2 amended: an invocation of a registered tool issues at most one HTTP
\* request, none after a failure, and exactly one unless building the request
\* throws before fetch (the base URL is no URL, or the email of
\* get_user_by_email is malformed).
C2_AtMostOneRequest ==
  \A i \in ToolSlots :
    inv[i].name \in ToolNames =>
      /\ inv[i].nreq <= 1
      /\ inv[i].pc \in {"fetch", "body"} => inv[i].nreq = 1
      /\ inv[i].pc = "done" =>
           (inv[i].nreq = 1 <=> ~ThrowsBeforeFetch(inv[i].name, inv[i].args))

\* C2 witness: an invocation of a registered tool replied after a network
\* fault, having issued its one request.
C2_Witness ==
  \E i \in DoneTools :
    /\ inv[i].name \in ToolNames
    /\ inv[i].out.kind = "throw" /\ inv[i].out.error.message = "fetch failed"
    /\ inv[i].nreq = 1

\* The values of the header of a request.
HeaderValues(req, name) ==
  {req.headers[h][2] : h \in {k \in 1..Len(req.headers) : req.headers[k][1] = name}}

\* C3: every request sent carries Authorization: Bearer <token>, the token
\* being the one the client was constructed with, and Content-Type:
\* application/json; the base URL and the token of the client stay what the
\* constructor made them.
C3_SameTokenEveryRequest ==
  /\ phase = "running" =>
       client = [baseUrl |-> StripTrailingSlash(NEVENT_API_URL(env).s),
                 jwtToken |-> NEVENT_JWT_TOKEN(env).s]
  /\ \A i \in Slots :
       inv[i].nreq > 0 =>
         /\ HeaderValues(inv[i].req, "Authorization")
              = {"Bearer " \o Flat(NEVENT_JWT_TOKEN(env).s)}
         /\ HeaderValues(inv[i].req, "Content-Type") = {"application/json"}

\* C3 witness: a request of a second invocation, with the token tokB.
C3_Witness ==
  \E i \in Slots :
    /\ inv[i].nreq > 0 /\ Len(log) >= 1
    /\ HeaderValues(inv[i].req, "Authorization") = {"Bearer tokB"}

\* The tenant is a header value or a query parameter value of the request.
TenantInRequest(req, tenant) ==
  \/ \E h \in 1..Len(req.headers) : req.headers[h][2] = Flat(tenant)
  \/ LET pairs == ParseQuery(NewURL(req.url).query)
     IN \E k \in 1..Len(pairs) : pairs[k][2] = tenant

\* C4: with NEVENT_TENANT_ID set, every request sent forwards the tenant
\* identifier, as a header or as a query parameter.
C4_TenantForwarded ==
  \A i \in Slots :
    inv[i].nreq > 0 /\ NEVENT_TENANT_ID(env).t = "str" =>
      TenantInRequest(inv[i].req, NEVENT_TENANT_ID(env).s)

\* C5: an invocation with a name the switch has no case for fails with the
\* method-not-found error whose message holds the name, which the caller gets
\* as the error reply; no HTTP request is made for it.
C5_UnknownToolMethodNotFound ==
  \A i \in DoneTools :
    inv[i].name \notin ToolNames =>
      /\ inv[i].out.kind = "throw"
      /\ inv[i].out.error.name = "McpError"
      /\ inv[i].out.error.code = MethodNotFound
      /\ inv[i].out.error.message
           = "MCP error -32601: Unknown tool: " \o inv[i].name
      /\ inv[i].result.kind = "reply"
      /\ IsErrorReply(inv[i].result.reply)
      /\ ReplyText(inv[i].result.reply)
           = "Error: MCP error -32601: Unknown tool: " \o inv[i].name
      /\ inv[i].nreq = 0

\* C5 witness: the invocation of resume_campaign, which has no case, replied.
C5_Witness ==
  \E i \in DoneTools :
    inv[i].name = "resume_campaign" /\ IsErrorReply(inv[i].result.reply)

\* The message C6 states for a response: the message field of the decoded
\* body when that is an object with a string message, else the status line.
StatedMessage(resp, raw) ==
  LET d == Decode(resp.contentType, raw)
  IN IF d.ok /\ d.v.t = "obj" /\ HasKey(d.v, "message") /\ Prop(d.v, "message").t = "str"
     THEN Flat(Prop(d.v, "message").s)
     ELSE "HTTP " \o ToString(resp.status) \o ": " \o resp.statusText

\* C6: for every response with a status outside 200..299, whatever its
\* content type and body, request throws an error whose message is the
\* string message field of the decoded body, or else "HTTP <status>:
\* <statusText>".
C6_NonOkMessage ==
  \A i \in BodyRead :
    ~ResponseOk(inv[i].resp.status) =>
      /\ inv[i].out.kind = "throw"
      /\ inv[i].out.error.message = StatedMessage(inv[i].resp, Flat(inv[i].raw.s))

\* C7: for every response with a status in 200..299 request returns
\* { data, status, ok: true } with data the decoded body, empty bodies
\* included; no such response makes it throw.
C7_OkReturns ==
  \A i \in BodyRead :
    ResponseOk(inv[i].resp.status) =>
      /\ inv[i].out.kind = "return"
      /\ inv[i].out.value.ok
      /\ inv[i].out.value.status = inv[i].resp.status
      /\ inv[i].out.value.data = Decode(inv[i].resp.contentType, Flat(inv[i].raw.s)).v

\* The body, as sent, is the JSON text of an object { "message": m } with m
\* a string.
IsMessageBody(raw) ==
  /\ ParseJSON(raw).ok
  /\ ParseJSON(raw).v.t = "obj"
  /\ Len(ParseJSON(raw).v.e) = 1
  /\ Prop(ParseJSON(raw).v, "message").t = "str"

MessageOf(raw) == Flat(Prop(ParseJSON(raw).v, "message").s)

\* C8 as stated: for a registered tool, a response with a status outside
\* 200..299 whose body is {"message": m} gives the error reply "Error: " + m.
C8_MessageBodySurfaces ==
  \A i \in DoneTools \cap BodyRead :
    /\ inv[i].name \in ToolNames
    /\ ~ResponseOk(inv[i].resp.status)
    /\ IsMessageBody(Flat(inv[i].raw.s))
    => /\ IsErrorReply(inv[i].result.reply)
       /\ ReplyText(inv[i].result.reply) = "Error: " \o MessageOf(Flat(inv[i].raw.s))

\* C8 amended: for a registered tool, a response with a status outside
\* 200..299 whose content type includes application/json and whose body is
\* {"message": m}, m a string, gives the error reply "Error: " + m.
C8_JsonMessageBodySurfaces ==
  \A i \in DoneTools \cap BodyRead :
    /\ inv[i].name \in ToolNames
    /\ ~ResponseOk(inv[i].resp.status)
    /\ IncludesJson(inv[i].resp.contentType)
    /\ IsMessageBody(Flat(inv[i].raw.s))
    => /\ IsErrorReply(inv[i].result.reply)
       /\ ReplyText(inv[i].result.reply) = "Error: " \o MessageOf(Flat(inv[i].raw.s))

\* C8 witness: the 404 with the JSON body {"message":"User not found"}
\* replied "Error: User not found".
C8_Witness ==
  \E i \in DoneTools \cap BodyRead :
    /\ inv[i].name = "get_user"
    /\ inv[i].resp.status = 404
    /\ IncludesJson(inv[i].resp.contentType)
    /\ Flat(inv[i].raw.s) = "{\"message\":\"User not found\"}"
    /\ ReplyText(inv[i].result.reply) = "Error: User not found"

\* The direct calls of request that reached fetch.
SentRequests == {i \in Slots : inv[i].via = "request" /\ inv[i].nreq > 0}

\* The parts name=value of the query string of a requested URL.
QueryParts(url) ==
  SelectSeq(SplitOn(NewURL(url).query, "&"), LAMBDA part : part # <<>>)

\* A part is one name, one "=" and one value, with no character left that
\* the URL encoding escapes.
Encoded(part) ==
  /\ Cardinality({k \in 1..Len(part) : part[k] = "="}) = 1
  /\ \A k \in 1..Len(part) : part[k] \notin SpecialChars \ {"=", "+"}

\* The query string of the URL requested by the call renders its params
\* mapping: no pair for a key whose value is undefined, and for a key whose
\* value is a string, a number or a boolean exactly one pair, URL-encoded,
\* with the string form of the value.
ParamsInQuery(i) ==
  LET params == inv[i].args.options.params
      parts == QueryParts(inv[i].req.url)
      pairs == ParseQuery(NewURL(inv[i].req.url).query)
      hits(key) == {k \in 1..Len(pairs) : pairs[k][1] = <<key>>}
  IN params.t = "obj" =>
       \A e \in 1..Len(params.e) :
         /\ params.e[e][2].t = "undefined" => hits(params.e[e][1]) = {}
         /\ params.e[e][2].t \in {"str", "num", "bool"} =>
              /\ Cardinality(hits(params.e[e][1])) = 1
              /\ \A k \in hits(params.e[e][1]) :
                   /\ pairs[k][2] = StringOf(params.e[e][2])
                   /\ Encoded(parts[k])

\* The path handed to request has a query string of its own.
PathHasQuery(path) == \E k \in 1..Len(path) : path[k] = "?"

C10_PayloadIsJsonOfBody ==
  \A i \in SentRequests :
    /\ inv[i].args.method # "GET" /\ inv[i].args.options.body.t # "undefined" =>
         inv[i].req.body = JSONStringify(inv[i].args.options.body, 0)
    /\ inv[i].args.method = "GET" => inv[i].req.body = Undefined

\* The keys of the argument bag the tool puts into the path of its request.
PathIds(name) ==
  CASE name \in {"get_user", "update_user", "delete_user", "get_user_purchases",
                 "get_user_events", "get_user_communication_preferences",
                 "update_user_communication_preferences"} -> {"userId"}
    [] name = "get_user_by_email" -> {"email"}
    [] name \in {"get_campaign", "update_campaign", "delete_campaign",
                 "send_campaign", "schedule_campaign", "pause_campaign",
                 "cancel_campaign", "get_campaign_metrics", "send_test_campaign",
                 "duplicate_campaign"} -> {"campaignId"}
    [] name \in {"get_segment", "update_segment", "delete_segment",
                 "execute_segment"} -> {"segmentId"}
    [] name \in {"get_email_template", "update_email_template",
                 "delete_email_template", "render_email_template"} -> {"templateId"}
    [] name \in {"link_performer_spotify", "unlink_performer_from_master",
                 "update_performer", "get_performer", "delete_performer",
                 "get_performer_likes"} -> {"performerId"}
    [] name = "create_performer_from_master" -> {"masterPerformerId"}
    [] name \in {"update_session", "get_session", "delete_session",
                 "add_performer_to_session", "reorder_session_performers",
                 "publish_session"} -> {"sessionId"}
    [] name = "remove_performer_from_session" -> {"sessionId", "performerId"}
    [] name \in {"list_event_sessions", "create_session", "get_public_lineup",
                 "get_admin_lineup", "create_or_update_daily_lineup",
                 "get_all_daily_lineups"} -> {"eventId"}
    [] name \in {"get_daily_lineup_by_date", "update_daily_lineup",
                 "publish_daily_lineup", "unpublish_daily_lineup",
                 "delete_daily_lineup"} -> {"eventId", "date"}
    [] OTHER -> {}

\* The invocations of registered tools at the point where their request has
\* gone out and fetch is awaited; every request sent is seen there.
SentTools == {i \in ToolSlots : inv[i].name \in ToolNames /\ inv[i].pc = "fetch"}

\* The argument bag the switch works on.
ToolArgs(i) == Or(inv[i].args, Obj(<<>>))

\* The call of the client the tool function of the invocation makes.
ToolCall(i) == Dispatch(inv[i].name, ToolArgs(i))

\* The object, serialized or put into the query, has the key with a value.
Carries(o, key) == o.t = "obj" /\ HasKey(o, key) /\ Prop(o, key).t # "undefined"

\* The request sent is the one of the call: its method, its payload, and a
\* path that holds each identifier given as a string of one piece.
SentAsCalled(i) ==
  /\ inv[i].req.method = ToolCall(i).method
  /\ inv[i].req.body = RequestBody(ToolCall(i).method, ToolCall(i).options.body)
  /\ \A k \in PathIds(inv[i].name) :
       Prop(ToolArgs(i), k).t = "str" /\ Len(Prop(ToolArgs(i), k).s) = 1 =>
         \E j \in 1..Len(inv[i].req.url) : inv[i].req.url[j] = Prop(ToolArgs(i), k).s[1]

\* The key is forwarded by the call, in its body or in its query parameters.
Forwards(i, key) ==
  \/ Carries(ToolCall(i).options.body, key)
  \/ Carries(ToolCall(i).options.params, key)

\* The tools that send a path identifier again in the body.
Duplicated(name) ==
  CASE name = "create_session" -> {"eventId"}
    [] name = "update_daily_lineup" -> {"date"}
    [] OTHER -> {}

\* C11 as stated: for every tool whose path holds an identifier of the
\* argument bag, the identifier is taken out of the bag before the rest is
\* forwarded: neither the body nor the query of the request carries it.
C11_PathIdNeverForwarded ==
  \A i \in SentTools :
    SentAsCalled(i) /\ \A k \in PathIds(inv[i].name) : ~Forwards(i, k)

\* C11 amended: the same for every tool and path identifier but the eventId
\* of create_session and the date of update_daily_lineup, which the body of
\* the request carries again whenever the bag has them.
C11_PathIdForwardedOnlyByTwo ==
  \A i \in SentTools :
    /\ SentAsCalled(i)
    /\ \A k \in PathIds(inv[i].name) \ Duplicated(inv[i].name) : ~Forwards(i, k)
    /\ \A k \in Duplicated(inv[i].name) :
         Carries(ToolCall(i).options.body, k)
           <=> Prop(ToolArgs(i), k).t # "undefined"

\* C11 witness: update_user sent PUT /users/u1 with the body {"name":"Ann"}
\* for the bag {userId: "u1", name: "Ann"}.
C11_Witness ==
  \E i \in SentTools :
    /\ inv[i].name = "update_user"
    /\ Carries(ToolArgs(i), "userId")
    /\ Flat(inv[i].req.url) = "https://api.nevent.io/users/u1"
    /\ inv[i].req.body = Text("{\"name\":\"Ann\"}")


\* The tools whose case hands the argument bag, whole or without the path
\* identifier, to a function that sends it as the body.
PassThrough ==
  {"create_user", "update_user", "create_property_definition",
   "update_user_communication_preferences", "export_users",
   "create_campaign", "update_campaign", "create_segment", "update_segment",
   "create_email_template", "update_email_template", "generate_email_content",
   "create_performer", "update_performer", "create_session", "update_session"}

\* For the other tools, the keys of the bag that case and function name and
\* forward under the same key.
Named(name) ==
  CASE name = "list_users" ->
         {"page", "size", "sort", "email", "name", "phone", "createdFrom",
          "createdTo", "eventId", "listId"}
    [] name \in {"get_user_purchases", "get_performer_likes"} -> {"page", "size"}
    [] name = "get_user_events" -> {"page", "size", "type"}
    [] name = "get_property_definitions" -> {"type"}
    [] name = "list_campaigns" -> {"page", "size", "sort", "type", "status"}
    [] name \in {"list_segments", "list_email_templates", "list_performers"} ->
         {"page", "size", "sort"}
    [] name = "schedule_campaign" -> {"scheduledAt"}
    [] name \in {"search_spotify", "search_performers"} -> {"query", "limit"}
    [] name = "link_performer_spotify" -> {"spotifyId", "overrideData"}
    [] name = "get_performer" -> {"includeMaster"}
    [] name = "list_event_sessions" -> {"date", "stage", "isPublished"}
    [] name = "add_performer_to_session" -> {"performerId", "displayOrder", "notes"}
    [] name = "publish_session" -> {"isPublished"}
    [] name \in {"create_or_update_daily_lineup", "update_daily_lineup"} ->
         {"date", "performerIds", "displayOrder"}
    [] OTHER -> {}

\* The keys of the bag that have a value and are not path identifiers.
RemainingKeys(i) ==
  {ToolArgs(i).e[k][1] : k \in {j \in 1..Len(ToolArgs(i).e) :
                                   ToolArgs(i).e[j][2].t # "undefined"}}
    \ (PathIds(inv[i].name) \ Duplicated(inv[i].name))

\* The pairs of the query string of the request sent.
QueryPairs(i) == ParseQuery(NewURL(inv[i].req.url).query)

\* The key of the bag is forwarded under the same key with the same value:
\* in the query string of a GET request, in the body of another.
ForwardedSame(i, key) ==
  IF inv[i].req.method = "GET"
  THEN /\ Prop(ToolArgs(i), key).t \in {"str", "num", "bool"}
       /\ \E j \in 1..Len(QueryPairs(i)) :
            QueryPairs(i)[j] = << <<key>>, StringOf(Prop(ToolArgs(i), key)) >>
  ELSE /\ Carries(ToolCall(i).options.body, key)
       /\ Prop(ToolCall(i).options.body, key) = Prop(ToolArgs(i), key)

\* A string as the URL serializer takes it: U+FFFD for each lone surrogate.
USVString(s) ==
  [k \in 1..Len(s) |-> IF s[k] = LoneSurrogate THEN "<U+FFFD>" ELSE s[k]]

\* The same, but for a string that is not well-formed Unicode, which a
\* query string carries with U+FFFD in place of each lone surrogate.
ForwardedAsSent(i, key) ==
  IF inv[i].req.method = "GET"
  THEN /\ Prop(ToolArgs(i), key).t \in {"str", "num", "bool"}
       /\ \E j \in 1..Len(QueryPairs(i)) :
            QueryPairs(i)[j] = << <<key>>, USVString(StringOf(Prop(ToolArgs(i), key))) >>
  ELSE ForwardedSame(i, key)

\* C12 as stated: for every registered tool and argument bag, each key of the
\* bag that is not a path identifier is forwarded under the same key with the
\* same value, in the body (method other than GET) or in the query (GET).
C12_EveryRemainingKeyForwarded ==
  \A i \in SentTools :
    SentAsCalled(i) /\ \A k \in RemainingKeys(i) : ForwardedSame(i, k)

\* C12 amended: that holds for the tools that pass the bag on as the body;
\* every other tool forwards the keys it names and drops the rest, where
\* send_test_campaign sends testEmails as emails, and preview_segment and
\* reorder_session_performers send the value of criteria and of newOrders
\* as the body itself, and a query string has U+FFFD for a lone surrogate.
C12_NamedKeysForwarded ==
  \A i \in SentTools :
    /\ SentAsCalled(i)
    /\ \A k \in RemainingKeys(i) :
         IF inv[i].name \in PassThrough \/ k \in Named(inv[i].name)
         THEN ForwardedAsSent(i, k)
         ELSE ~Forwards(i, k) /\ \A j \in 1..Len(QueryPairs(i)) : QueryPairs(i)[j][1] # <<k>>
    /\ inv[i].name = "send_test_campaign" =>
         ToolCall(i).options.body = Obj(<< <<"emails", Prop(ToolArgs(i), "testEmails")>> >>)
    /\ inv[i].name = "preview_segment" =>
         ToolCall(i).options.body = Prop(ToolArgs(i), "criteria")
    /\ inv[i].name = "reorder_session_performers" =>
         ToolCall(i).options.body = Prop(ToolArgs(i), "newOrders")

\* C12 witness: send_test_campaign sent the bag's testEmails under the key
\* emails, and nothing else of the bag.
C12_Witness ==
  \E i \in SentTools :
    /\ inv[i].name = "send_test_campaign"
    /\ Carries(ToolArgs(i), "testEmails")
    /\ Flat(inv[i].req.url) = "https://api.nevent.io/campaigns/c1/test"
    /\ inv[i].req.body = Text("{\"emails\":[\"qa\",\"dev\"]}")


\* The tools that take page and size.
Paginated ==
  {"list_users", "get_user_purchases", "get_user_events", "list_campaigns",
   "list_segments", "list_email_templates", "list_performers",
   "get_performer_likes"}

\* The values the query string of the request has for the key.
QueryValues(i, key) ==
  {QueryPairs(i)[j][2] :
     j \in {k \in 1..Len(QueryPairs(i)) : QueryPairs(i)[k][1] = <<key>>}}

\* The query string has the key once.
OnceInQuery(i, key) ==
  Cardinality({k \in 1..Len(QueryPairs(i)) : QueryPairs(i)[k][1] = <<key>>}) = 1

\* C13: the request of a paginated tool has page=0 in its query string when
\* the bag has no page and size=20 when it has no size; a page or size the
\* bag has, 0 included, is in the query string as given.
C13_PageAndSizeDefaults ==
  \A i \in SentTools :
    inv[i].name \in Paginated =>
      /\ inv[i].req.method = "GET"
      /\ OnceInQuery(i, "page") /\ OnceInQuery(i, "size")
      /\ QueryValues(i, "page")
           = {IF Prop(ToolArgs(i), "page").t = "undefined" THEN <<"0">>
              ELSE StringOf(Prop(ToolArgs(i), "page"))}
      /\ QueryValues(i, "size")
           = {IF Prop(ToolArgs(i), "size").t = "undefined" THEN <<"20">>
              ELSE StringOf(Prop(ToolArgs(i), "size"))}

\* C13 witness: get_performer_likes with page 2 and size 0 sent them as
\* given.
C13_Witness ==
  \E i \in SentTools :
    /\ inv[i].name = "get_performer_likes"
    /\ Prop(ToolArgs(i), "size") = Num(0)
    /\ Flat(inv[i].req.url)
         = "https://api.nevent.io/admin/performers/p1/likes?page=2&size=0"

\* Another witness of C13: list_campaigns with an empty bag sent the defaults.
C13_WitnessDefaults ==
  \E i \in SentTools :
    /\ inv[i].name = "list_campaigns"
    /\ inv[i].args = Obj(<<>>)
    /\ Flat(inv[i].req.url) = "https://api.nevent.io/campaigns?page=0&size=20"


\* The body of the request is the JSON text of an object that has the key
\* with the value.
BodyCarries(i, key, v) ==
  /\ Carries(ToolCall(i).options.body, key)
  /\ Prop(ToolCall(i).options.body, key) = v
  /\ inv[i].req.body = JSONStringify(ToolCall(i).options.body, 0)

\* C14: the request of link_performer_spotify for a bag without overrideData
\* carries overrideData = false.
C14_OverrideDataDefault ==
  \A i \in SentTools :
    /\ inv[i].name = "link_performer_spotify"
    /\ Prop(ToolArgs(i), "overrideData").t = "undefined"
    => BodyCarries(i, "overrideData", Bool(FALSE))

\* C15: the request of export_users for a bag without format carries
\* format = "csv".
C15_FormatDefault ==
  \A i \in SentTools :
    /\ inv[i].name = "export_users"
    /\ Prop(ToolArgs(i), "format").t = "undefined"
    => BodyCarries(i, "format", Text("csv"))


\* C16: list_users called with no arguments sends GET <base URL>/users with
\* the query string page=0&size=20 and nothing else: no sort, email, name,
\* phone, createdFrom, createdTo, eventId or listId, and no payload.
C16_ListUsersNoArguments ==
  \A i \in SentTools :
    inv[i].name = "list_users" /\ ToolArgs(i) = Obj(<<>>) =>
      /\ inv[i].req.method = "GET"
      /\ inv[i].req.body = Undefined
      /\ inv[i].req.url = client.baseUrl \o <<"/users", "?">>
                            \o <<"page", "=", "0", "&", "size", "=", "20">>
      /\ QueryPairs(i) = << << <<"page">>, <<"0">> >>, << <<"size">>, <<"20">> >> >>

\* C16 witness: list_users without arguments sent
\* GET https://staging.nevent.io/v1/users?page=0&size=20.
C16_Witness ==
  \E i \in SentTools :
    /\ inv[i].name = "list_users"
    /\ inv[i].args = Undefined
    /\ inv[i].req.method = "GET"
    /\ Flat(inv[i].req.url) = "https://staging.nevent.io/v1/users?page=0&size=20"


\* The update-style tools: the key of the identifier, the method, and the
\* path before and after the identifier.
UpdateTools ==
  {"update_user", "update_campaign", "update_segment", "update_email_template",
   "update_performer", "update_session", "update_user_communication_preferences"}

UpdateId(name) ==
  CASE name \in {"update_user", "update_user_communication_preferences"} -> "userId"
    [] name = "update_campaign" -> "campaignId"
    [] name = "update_segment" -> "segmentId"
    [] name = "update_email_template" -> "templateId"
    [] name = "update_performer" -> "performerId"
    [] name = "update_session" -> "sessionId"

UpdateMethod(name) ==
  IF name \in {"update_performer", "update_session"} THEN "PATCH" ELSE "PUT"

UpdatePath(name, id) ==
  CASE name = "update_user" -> <<"/users/">> \o id
    [] name = "update_user_communication_preferences" ->
         <<"/users/">> \o id \o <<"/communication-preferences">>
    [] name = "update_campaign" -> <<"/campaigns/">> \o id
    [] name = "update_segment" -> <<"/segments/">> \o id
    [] name = "update_email_template" -> <<"/templates/email/">> \o id
    [] name = "update_performer" -> <<"/admin/performers/">> \o id
    [] name = "update_session" -> <<"/admin/sessions/">> \o id

\* The object without its entry for the key.
Without(o, key) == Obj(SelectSeq(o.e, LAMBDA entry : entry[1] # key))

\* C17: the request of an update-style tool goes, with PUT or PATCH, to the
\* path built from the identifier of the bag, has no query string, and its
\* body is the JSON text of the bag without the identifier key and with
\* every other key.
C17_UpdateSendsRestOfBag ==
  \A i \in SentTools :
    inv[i].name \in UpdateTools =>
      /\ inv[i].req.method = UpdateMethod(inv[i].name)
      /\ inv[i].req.url
           = client.baseUrl
               \o UpdatePath(inv[i].name, StringOf(Prop(ToolArgs(i), UpdateId(inv[i].name))))
      /\ inv[i].req.body
           = JSONStringify(Without(ToolArgs(i), UpdateId(inv[i].name)), 0)

\* C17 witness: update_user with {userId: "u1", name: "Ann"} sent
\* PUT /users/u1 with the body {"name":"Ann"} to the staging base URL.
C17_Witness ==
  \E i \in SentTools :
    /\ inv[i].name = "update_user"
    /\ inv[i].args = Obj(<< <<"userId", Text("u1")>>, <<"name", Text("Ann")>> >>)
    /\ inv[i].req.method = "PUT"
    /\ Flat(inv[i].req.url) = "https://staging.nevent.io/v1/users/u1"
    /\ inv[i].req.body = Text("{\"name\":\"Ann\"}")


\* C18: generate_email_content sends POST <base URL>/campaigns/generate with
\* the JSON text of { prompt, ...options }, options being the bag without
\* prompt; and when the exchange succeeds the reply is the JSON text,
\* indented by 2, of the decoded body of the response, unchanged.
C18_GenerateEmailContent ==
  /\ \A i \in SentTools :
       inv[i].name = "generate_email_content" =>
         /\ inv[i].req.method = "POST"
         /\ inv[i].req.url = client.baseUrl \o <<"/campaigns/generate">>
         /\ inv[i].req.body
              = JSONStringify(Obj(<< <<"prompt", Prop(ToolArgs(i), "prompt")>> >>
                                   \o Without(ToolArgs(i), "prompt").e), 0)
  /\ \A i \in DoneTools :
       inv[i].name = "generate_email_content" /\ inv[i].out.kind = "return" =>
         /\ inv[i].out.value.data
              = Decode(inv[i].resp.contentType, Flat(inv[i].raw.s)).v
         /\ ~IsErrorReply(inv[i].result.reply)
         /\ inv[i].result.reply.content[1].text
              = JSONStringify(Decode(inv[i].resp.contentType, Flat(inv[i].raw.s)).v, 2)

\* C18 witness: generate_email_content with {prompt: "Summer sale", tone:
\* "exciting"} sent that body and replied the {subject, content} of the
\* response.
C18_Witness ==
  \E i \in DoneTools :
    /\ inv[i].name = "generate_email_content"
    /\ inv[i].out.kind = "return"
    /\ Flat(inv[i].req.url) = "https://api.nevent.io/campaigns/generate"
    /\ inv[i].req.body = Text("{\"prompt\":\"Summer sale\",\"tone\":\"exciting\"}")
    /\ inv[i].resp.status = 200
    /\ Flat(inv[i].raw.s) = "{\"subject\":\"Hi\",\"content\":\"Hello\"}"
    /\ ReplyText(inv[i].result.reply)
         = "{\n  \"subject\": \"Hi\",\n  \"content\": \"Hello\"\n}"

\* C19: for every registered tool whose HTTP exchange ends in a response
\* with a status in 200..299, the reply is { content: [{ type: 'text', text }] }
\* without isError, text being the JSON text, indented by 2, of the decoded
\* body of the response.
C19_SuccessReplyIsDecodedBody ==
  \A i \in DoneTools \cap BodyRead :
    inv[i].name \in ToolNames /\ ResponseOk(inv[i].resp.status) =>
      /\ ~IsErrorReply(inv[i].result.reply)
      /\ TextReply(inv[i].result.reply)
      /\ Decode(inv[i].resp.contentType, Flat(inv[i].raw.s)).ok =>
           inv[i].result.reply.content[1].text
             = JSONStringify(Decode(inv[i].resp.contentType, Flat(inv[i].raw.s)).v, 2)

\* The list-tools requests answered and not yet delivered.
Listed == {i \in Slots : inv[i].pc = "done" /\ inv[i].via = "list"}

\* C20: every list-tools request, whatever calls came before it and however
\* they ended, is answered by { tools } with tools the user tool definitions,
\* then the campaign ones, then the lineup ones.
C20_SameCatalogAlways ==
  \A i \in Listed :
    /\ inv[i].result.kind = "reply"
    /\ DOMAIN inv[i].result.reply = {"tools"}
    /\ inv[i].result.reply.tools
         = userToolDefinitions \o campaignToolDefinitions \o lineupToolDefinitions

\* C20 witness: the catalog was listed after a call that succeeded and a call
\* that failed; it has 69 definitions, list_users first, list_campaigns the
\* 15th, create_performer the 41st.
C20_Witness ==
  \E i \in Listed :
    /\ \E j, k \in 1..Len(log) : log[j] = "ok" /\ log[k] = "error"
    /\ Len(inv[i].result.reply.tools) = 69
    /\ inv[i].result.reply.tools[1].name = "list_users"
    /\ inv[i].result.reply.tools[15].name = "list_campaigns"
    /\ inv[i].result.reply.tools[41].name = "create_performer"

\* What the try block of the handler ends with for an invocation, computed
\* from the invocation's name, its arguments and the response it received.
OwnOutcome(slot) ==
  LET plan == Dispatch(slot.name, Or(slot.args, Obj(<<>>)))
      r == IF plan.kind = "call"
           THEN request(client, plan.method, plan.path, plan.options)
           ELSE plan
  IN IF r.kind # "fetch" THEN r
     ELSE IF slot.resp = Undefined THEN Throw(TypeError("fetch failed"))
     ELSE IF slot.raw = Undefined THEN Throw(TypeError("terminated"))
     ELSE requestResult(slot.resp, Flat(slot.raw.s))

\* The request an invocation hands to fetch, computed from its name and
\* its arguments.
OwnRequest(slot) ==
  LET plan == Dispatch(slot.name, Or(slot.args, Obj(<<>>)))
  IN request(client, plan.method, plan.path, plan.options).req

\* C21: with several invocations in flight and their responses arriving in
\* any order, the request each sends and the reply each ends with are those
\* of its own name, its own arguments and its own response, as if it had
\* run alone.
C21_ReplyFromOwnInputs ==
  \A i \in Invocations :
    /\ inv[i].pc \in {"fetch", "body"} => inv[i].req = OwnRequest(inv[i])
    /\ inv[i].pc = "done" =>
         /\ inv[i].out = OwnOutcome(inv[i])
         /\ inv[i].result = HandlerResult(OwnOutcome(inv[i]))

\* C21 witness: two invocations are done, their requests overlapped: get_user
\* of u1 was answered 404 with "User not found" and replied the error,
\* list_users was answered 200 and replied the body.
C21_Witness ==
  /\ inv[1].pc = "done" /\ inv[2].pc = "done" /\ log = <<>>
  /\ inv[1].name = "get_user" /\ inv[2].name = "list_users"
  /\ inv[1].raw.t = "str" /\ inv[2].raw.t = "str"
  /\ inv[1].resp.status = 404 /\ inv[2].resp.status = 200
  /\ ReplyText(inv[1].result.reply) = "Error: User not found"
  /\ IsErrorReply(inv[1].result.reply)
  /\ ReplyText(inv[2].result.reply) = "{\n  \"id\": \"u1\"\n}"
  /\ ~IsErrorReply(inv[2].result.reply)

\* C22: when NEVENT_JWT_TOKEN is unset or empty the process exits at
\* startup: the client is never constructed, the server never runs, no
\* list-tools or call-tool request is served and no request is sent.
C22_NoTokenNothingServed ==
  ~Truthy(NEVENT_JWT_TOKEN(env)) =>
    /\ phase \in {"start", "exited"}
    /\ client = Undefined
    /\ \A i \in Slots : inv[i] = Idle
    /\ log = <<>>

\* C22 witness: the process has exited on an empty NEVENT_JWT_TOKEN.
C22_Witness ==
  /\ phase = "exited"
  /\ env.NEVENT_JWT_TOKEN = Str(<<>>)
  /\ client = Undefined

\* The functions of the tool modules that no case of the switch calls, under
\* the names the other tools are named by, applied to the arguments named
\* after their parameters.
Uncalled(name, toolArgs) ==
  LET a(k) == Prop(toolArgs, k)
  IN CASE name = "resume_campaign" -> resumeCampaign(a("campaignId"))
       [] name = "update_property_definition" ->
            updatePropertyDefinition(a("propertyId"), Rest(toolArgs, "propertyId"))
       [] name = "delete_property_definition" ->
            deletePropertyDefinition(a("propertyId"))
       [] name = "search_users_by_segment" ->
            searchUsersBySegment(a("segmentId"), Lit(Pick(toolArgs, <<"page", "size">>)))
       [] name = "add_user_to_list" -> addUserToList(a("listId"), a("userId"))
       [] name = "remove_user_from_list" -> removeUserFromList(a("listId"), a("userId"))

UncalledNames ==
  {"resume_campaign", "update_property_definition", "delete_property_definition",
   "search_users_by_segment", "add_user_to_list", "remove_user_from_list"}

\* The names of the definitions of a catalog.
CatalogNames(tools) == {tools[k].name : k \in 1..Len(tools)}

\* C23: every function of the tool modules, resumeCampaign,
\* updatePropertyDefinition, deletePropertyDefinition, searchUsersBySegment,
\* addUserToList and removeUserFromList included, has a definition in the
\* catalog that list-tools returns and a case of the switch that calls it.
C23_EveryFunctionIsATool ==
  /\ \A i \in Listed : UncalledNames \subseteq CatalogNames(inv[i].result.reply.tools)
  /\ \A i \in DoneTools :
       inv[i].name \in UncalledNames /\ BaseUrlIsUrl =>
         /\ inv[i].nreq = 1
         /\ LET plan == Uncalled(inv[i].name, ToolArgs(i))
            IN inv[i].req = request(client, plan.method, plan.path, plan.options).req

\* The invocations waiting for the network.
Suspended == {i \in Invocations : inv[i].pc \in {"fetch", "body"}}

\* C24: an invocation waits at one point only between its start and its
\* reply, the network call: whenever it is suspended it is waiting for fetch.
C24_SuspendsExactlyOnce ==
  \A i \in Suspended : inv[i].pc = "fetch"

\* The steps an invocation takes: from its start it runs to fetch or, when
\* it throws before, to its reply; from fetch to the reading of the body
\* when the response arrives, to its reply when fetch rejects; from the
\* reading of the body to its reply.
StepOf(i) ==
  \/ inv[i].pc = "idle" /\ inv'[i].pc = "fetch" /\ inv'[i].nreq = 1
  \/ inv[i].pc = "idle" /\ inv'[i].pc = "done" /\ inv'[i].nreq = 0
  \/ inv[i].pc = "fetch" /\ inv'[i].pc = "body" /\ inv'[i].resp # Undefined
  \/ inv[i].pc = "fetch" /\ inv'[i].pc = "done" /\ inv'[i].resp = Undefined
  \/ inv[i].pc = "body" /\ inv'[i].pc = "done"
  \/ inv[i].pc = "done" /\ inv'[i] = Idle

\* C24, amended: an invocation suspends at two points at most, first on
\* fetch and, once the response has arrived, on the reading of its body;
\* one that throws before fetch does not suspend, and every step of the
\* run is a step of one invocation.
C24_SuspendsOnFetchThenOnBody ==
  [][\E i \in Invocations :
       /\ StepOf(i)
       /\ \A j \in Invocations \ {i} : inv'[j] = inv[j]]_vars

\* C24 witness: the first invocation has its response and waits for the
\* body, its second suspension, while the second invocation, started
\* meanwhile, waits for fetch.
C24_Witness ==
  /\ inv[1].pc = "body" /\ inv[1].resp.status = 200 /\ inv[1].nreq = 1
  /\ inv[2].pc = "fetch" /\ inv[2].nreq = 1

\* The content type names a JSON media type: application/json, or a type
\* with the structured syntax suffix +json.
IndicatesJson(contentType) ==
  contentType.t = "str"
    /\ \E k \in 1..Len(contentType.s) : contentType.s[k] \in {"application/json", "+json"}

\* The body decoded as the content type indicates.
DecodedAsIndicated(contentType, raw) ==
  IF IndicatesJson(contentType) THEN ParseJSON(raw)
  ELSE [ok |-> TRUE, v |-> ResponseText(raw)]

\* C25: request decodes the body as JSON exactly when the content type of
\* the response indicates JSON, as text otherwise, and before it looks at
\* the status: what a 2xx response returns as data and what the error of
\* another response is built from is the body so decoded.
C25_DecodedAsContentTypeIndicates ==
  \A i \in BodyRead :
    LET d == DecodedAsIndicated(inv[i].resp.contentType, Flat(inv[i].raw.s))
    IN d.ok =>
         IF ResponseOk(inv[i].resp.status)
         THEN inv[i].out.kind = "return" /\ inv[i].out.value.data = d.v
         ELSE inv[i].out
                = Throw(Error(ErrorMessage(d.v, inv[i].resp.status, inv[i].resp.statusText)))

\* The switch has a case for the name.
Handled(name) == Dispatch(name, Obj(<<>>)) # DefaultCase(name)

\* C26: the names list-tools advertises are the names the switch has a case
\* for: no definition names a tool the switch does not handle, no case is
\* without a definition, no name is in the catalog twice; and a call ends in
\* the default case exactly when its name is not advertised.
C26_AdvertisedIsDispatched ==
  /\ \A i \in Listed :
       LET tools == inv[i].result.reply.tools
       IN /\ \A k, l \in 1..Len(tools) : tools[k].name = tools[l].name => k = l
          /\ CatalogNames(tools) \subseteq {n \in ToolNames \cup UnknownNames : Handled(n)}
          /\ \A n \in ToolNames \cup UnknownNames : Handled(n) => n \in CatalogNames(tools)
  /\ \A i \in DoneTools :
       inv[i].out = DefaultCase(inv[i].name)
         <=> inv[i].name \notin CatalogNames(allToolDefinitions)

\* C26 witness: after two calls were answered, list-tools returned 69
\* definitions with 69 different names, the names of the cases of the switch.
C26_Witness ==
  \E i \in Listed :
    /\ Len(log) = 2
    /\ Cardinality(CatalogNames(inv[i].result.reply.tools)) = 69
    /\ CatalogNames(inv[i].result.reply.tools) = ToolNames

\* C27: the step that takes a call-tool request with a name the switch has
\* no case for ends the invocation at once, without a request handed to
\* fetch, and leaves the client, the configuration and all else as it was.
C27_UnknownToolChangesNothing ==
  [][\A i \in Slots :
       inv[i].pc = "idle" /\ inv'[i].via = "tool" /\ inv'[i].name \notin ToolNames =>
         /\ inv'[i].pc = "done"
         /\ inv'[i].nreq = 0
         /\ inv'[i].req = Undefined
         /\ client' = client /\ client' = NeventClient(ClientConfig(env))
         /\ env' = env /\ phase' = phase /\ log' = log]_vars

\* C27 witness: a call of no_such_tool, made after another call was
\* answered, has ended without a request; the client is the one startup
\* constructed.
C27_Witness ==
  \E i \in DoneTools :
    /\ inv[i].name = "no_such_tool"
    /\ inv[i].nreq = 0
    /\ inv[i].req = Undefined
    /\ Len(log) = 1
    /\ client = NeventClient(ClientConfig(env))

\* The arguments the inputSchema of the tool requires.
Required(name) ==
  LET d == CHOOSE d \in {allToolDefinitions[k] : k \in 1..Len(allToolDefinitions)} :
             d.name = name
  IN {d.required[k] : k \in 1..Len(d.required)}

\* The invocations of registered tools whose arguments lack the key, a path
\* identifier the schema of the tool requires.
Lacking(key) ==
  {i \in ToolSlots : /\ inv[i].name \in ToolNames
                     /\ key \in PathIds(inv[i].name) \cap Required(inv[i].name)
                     /\ Prop(ToolArgs(i), key) = Undefined}

\* C28: the handler does not check the arguments against the schema: an
\* invocation of a registered tool without a path identifier its schema
\* requires is not rejected; with a base URL that is a URL it sends one
\* request, whose path has the text "undefined" where the identifier goes.
C28_MissingIdSentAsUndefined ==
  \A i \in ToolSlots :
    inv[i].name \in ToolNames /\ BaseUrlIsUrl =>
      \A key \in PathIds(inv[i].name) :
        Prop(ToolArgs(i), key) = Undefined /\ key \in Required(inv[i].name) =>
          /\ inv[i].nreq = 1
          /\ \E k \in 1..Len(NewURL(inv[i].req.url).path) :
               NewURL(inv[i].req.url).path[k] = "undefined"
          /\ inv[i].pc = "done" /\ inv[i].resp = Undefined =>
               inv[i].out = Throw(TypeError("fetch failed"))

\* C28 witness: get_user without userId sent GET
\* https://api.nevent.io/users/undefined and replied what the API answered.
C28_Witness ==
  \E i \in DoneTools \cap Lacking("userId") :
    /\ inv[i].name = "get_user"
    /\ inv[i].args = Obj(<<>>)
    /\ inv[i].nreq = 1
    /\ inv[i].req.method = "GET"
    /\ Flat(inv[i].req.url) = "https://api.nevent.io/users/undefined"
    /\ inv[i].raw.t = "str"
    /\ inv[i].resp.status = 404

\* The invocations that handed a request to fetch.
Sent == {i \in Invocations : inv[i].pc \in {"fetch", "body", "done"} /\ inv[i].nreq = 1}

\* C29: whatever string the caller gives as userId, get_user and delete_user
\* reach /users/{userId}: the URL requested has the path /users/ followed by
\* one segment, no query and no fragment.
C29_IdIsOnePathSegment ==
  \A i \in Sent :
    inv[i].name \in {"get_user", "delete_user"}
      /\ Prop(Or(inv[i].args, Obj(<<>>)), "userId").t = "str" =>
        LET u == NewURL(inv[i].req.url)
        IN /\ ~u.hasQuery
           /\ ~u.hasFragment
           /\ u.path[1] = "/users/"
           /\ \A k \in 2..Len(u.path) : u.path[k] # "/"

\* C30: two invocations with the same name and the same arguments, started
\* at any two points of a run, hand fetch the same request: the same
\* method, URL, headers and payload, whatever was called and answered in
\* between.
C30_SameCallSameRequest ==
  \A i, j \in Sent :
    inv[i].name = inv[j].name /\ inv[i].args = inv[j].args =>
      /\ inv[i].req.method = inv[j].req.method
      /\ inv[i].req.url = inv[j].req.url
      /\ inv[i].req.headers = inv[j].req.headers
      /\ inv[i].req.body = inv[j].req.body

\* C30 witness: get_user of u1 was called twice; a reply to another call
\* was delivered meanwhile and the first call was answered 404; both sent
\* GET https://api.nevent.io/users/u1.
C30_Witness ==
  /\ {1, 2} \subseteq Sent
  /\ inv[1].name = "get_user" /\ inv[2].name = "get_user"
  /\ inv[1].args = inv[2].args
  /\ Prop(inv[1].args, "userId") = Text("u1")
  /\ inv[1].pc = "done" /\ inv[1].raw.t = "str" /\ inv[1].resp.status = 404
  /\ inv[2].pc = "fetch"
  /\ Len(log) = 1
  /\ Flat(inv[2].req.url) = "https://api.nevent.io/users/u1"
  /\ inv[1].req = inv[2].req

=============================================================================
